---- MODULE Spec2Model ----
(***************************************************************************)
(* Kitchen OS (print00/Kitchen-OS): the inventory ledger, the production   *)
(* requirement aggregator and the procurement bridge of src/app/main.py,   *)
(* over the tables of src/app/db.py.                                       *)
(*                                                                         *)
(* Quantities are the REAL columns of the schema.  They are modelled as    *)
(* integers counted in ticks of 0.0002, five ticks to 0.001, so that       *)
(* Python's round(x, 3) is a real rounding (to a multiple of five ticks)   *)
(* and never meets a tie.  Float representation error is not modelled.     *)
(*                                                                         *)
(* A row's id is its position in its table for every table the code never  *)
(* deletes from (AUTOINCREMENT ids, db.py:69-143); recipes and recipe      *)
(* ingredients, which the code deletes, carry their id as a field.  SQL    *)
(* NULL is 0 for an id and "None" for a text.                              *)
(***************************************************************************)
EXTENDS Integers, Sequences, FiniteSets, TLC

VARIABLES
    inventory_items,          \* table inventory_items        (db.py:69-81)
    inventory_transactions,   \* table inventory_transactions (db.py:83-96)
    recipes,                  \* table recipes                (db.py:44-56)
    recipe_ingredients,       \* table recipe_ingredients     (db.py:58-67)
    production_plans,         \* table production_plans       (db.py:98-107)
    production_plan_items,    \* table production_plan_items  (db.py:109-117)
    grocery_lists,            \* table grocery_lists          (db.py:119-128)
    grocery_list_items,       \* table grocery_list_items     (db.py:130-143)
    call,                     \* the request served last and its response
    procs                     \* requests in flight, statement by statement

vars == <<inventory_items, inventory_transactions, recipes, recipe_ingredients,
          production_plans, production_plan_items, grocery_lists,
          grocery_list_items, call, procs>>

tables == <<inventory_items, inventory_transactions, recipes, recipe_ingredients,
            production_plans, production_plan_items, grocery_lists,
            grocery_list_items>>

-----------------------------------------------------------------------------
(* Bounds of the model. *)

\* rows the ledger may hold before ledger operations are no longer offered
MaxTx == 2
\* rows of inventory_items
MaxItems == 3
\* rows of grocery_list_items
MaxGroceryItems == 1
\* rows of grocery_lists that create_grocery_list may add to
MaxLists == 1
\* rows of production_plans
MaxPlans == 1
\* rows of production_plan_items
MaxPlanItems == 2
\* rows of grocery_list_items that send_shortages may fill
MaxShortageItems == 3
\* rows of recipes
MaxRecipes == 2

-----------------------------------------------------------------------------
(* Numbers. *)

\* ticks per 0.001: the precision round(x, 3) keeps
TicksPerMilli == 5

\* 1.0 in ticks
Unit == 1000 * TicksPerMilli

\* SQL NULL in an id column
NULL == 0

\* SQL NULL / Python None in a text column
None == "None"

\* round(x, 3) on a quantity in ticks: the nearest multiple of 0.001
\* (x % TicksPerMilli is never half of TicksPerMilli, so no tie arises).
\* round(-0.0004, 3) is -0.0, which is not < 0.
round3(x) ==
    LET r == x % TicksPerMilli
    IN  IF 2 * r < TicksPerMilli THEN x - r ELSE x - r + TicksPerMilli

max(a, b) == IF a >= b THEN a ELSE b

-----------------------------------------------------------------------------
(* Rows. *)

InventoryItem(name, base_unit, qty, cost, supplier) ==
    [name |-> name, base_unit |-> base_unit, current_quantity |-> qty,
     cost_per_unit |-> cost, supplier |-> supplier]

\* grocery_item stands for the notes text "Received via grocery item <id>"
\* of a receipt (main.py:1102); it is NULL for every other row.
InventoryTransaction(item_id, change, prev_q, new_q, reason, source, grocery_item) ==
    [inventory_item_id |-> item_id, change_quantity |-> change,
     previous_quantity |-> prev_q, new_quantity |-> new_q,
     reason |-> reason, source |-> source, grocery_item |-> grocery_item]

\* a recipes row; recipe_ingredients rows, kept in the order of their ids
Recipe(id, name, yield_amount) ==
    [id |-> id, name |-> name, yield_amount |-> yield_amount]

RecipeIngredient(recipe_id, item_id, qty) ==
    [recipe_id |-> recipe_id, inventory_item_id |-> item_id, quantity |-> qty]

GroceryList(list_date) == [list_date |-> list_date, status |-> "open"]

GroceryListItem(list_id, item_id, name, qty, unit, vendor, status, from_shortage) ==
    [grocery_list_id |-> list_id, inventory_item_id |-> item_id, name |-> name,
     quantity |-> qty, unit |-> unit, vendor |-> vendor, status |-> status,
     from_shortage |-> from_shortage]

\* The request served last: its operation, path id and numeric argument;
\* the HTTP status of the response, the number and the id it returns, and
\* the inventory items whose quantity the request wrote, in order; and the
\* lines a read returns.
Call(op, id, qty, code, ret, ret_id, writes) ==
    [op |-> op, id |-> id, qty |-> qty, code |-> code,
     ret |-> ret, ret_id |-> ret_id, writes |-> writes, rows |-> <<>>]

\* the response of a read that returns lines
CallRows(op, id, qty, code, rows) ==
    [Call(op, id, qty, code, Len(rows), NULL, <<>>) EXCEPT !.rows = rows]

NoCall == Call("none", NULL, 0, 0, 0, NULL, <<>>)

-----------------------------------------------------------------------------
(* Queries. *)

ItemIds == 1 .. Len(inventory_items)

\* SELECT ... FROM inventory_items WHERE name=?  (NULL when no row matches)
item_id_by_name(items, name) ==
    IF \E i \in 1 .. Len(items) : items[i].name = name
    THEN CHOOSE i \in 1 .. Len(items) : items[i].name = name
    ELSE NULL

\* the transaction rows of one inventory item, in ledger order
RowsOf(txs, item_id) == SelectSeq(txs, LAMBDA t : t.inventory_item_id = item_id)

\* faulty variant: the insert overwrites the latest row
InsertTransactionOverwrite(txs, row) ==
    IF txs = <<>> THEN <<row>> ELSE [txs EXCEPT ![Len(txs)] = row]

\* INSERT INTO inventory_transactions: the ledger grows by one row at its end
InsertTransaction(txs, row) == Append(txs, row)

\* faulty variant: the UPDATE has no WHERE clause
SetQuantityEverywhere(items, item_id, q) ==
    [i \in 1 .. Len(items) |-> [items[i] EXCEPT !.current_quantity = q]]

\* UPDATE inventory_items SET current_quantity=? WHERE id=?
SetQuantity(items, item_id, q) ==
    [items EXCEPT ![item_id].current_quantity = q]

-----------------------------------------------------------------------------
(* The inventory ledger: main.py:679-906. *)

\* POST /api/inventory (main.py:791-812).  The name column is UNIQUE
\* (db.py:71): a duplicate name raises in execute() and nothing is stored.
\* The quantity is stored as given.
create_inventory(name, base_unit, qty, cost, supplier) ==
    /\ Len(inventory_items) < MaxItems
    /\ IF item_id_by_name(inventory_items, name) # NULL
       THEN /\ call' = Call("create_inventory", NULL, qty, 500, 0, NULL, <<>>)
            /\ UNCHANGED inventory_items
       ELSE /\ inventory_items' =
                  Append(inventory_items,
                         InventoryItem(name, base_unit, qty, cost, supplier))
            /\ call' = Call("create_inventory", NULL, qty, 200, 0,
                            Len(inventory_items) + 1, <<>>)
    /\ UNCHANGED <<inventory_transactions, recipes, recipe_ingredients, production_plans,
                   production_plan_items, grocery_lists, grocery_list_items, procs>>

\* PUT /api/inventory/{item_id} (main.py:815-839): every column but the
\* quantity.  Renaming to the name of another item violates UNIQUE.
update_inventory(item_id, name, base_unit, cost, supplier) ==
    /\ IF item_id \notin ItemIds
       THEN /\ call' = Call("update_inventory", item_id, 0, 404, 0, NULL, <<>>)
            /\ UNCHANGED inventory_items
       ELSE IF item_id_by_name(inventory_items, name) \notin {NULL, item_id}
       THEN /\ call' = Call("update_inventory", item_id, 0, 500, 0, NULL, <<>>)
            /\ UNCHANGED inventory_items
       ELSE /\ inventory_items' =
                  [inventory_items EXCEPT ![item_id].name = name,
                                          ![item_id].base_unit = base_unit,
                                          ![item_id].cost_per_unit = cost,
                                          ![item_id].supplier = supplier]
            /\ call' = Call("update_inventory", item_id, 0, 200, 0, NULL, <<>>)
    /\ UNCHANGED <<inventory_transactions, recipes, recipe_ingredients, production_plans,
                   production_plan_items, grocery_lists, grocery_list_items, procs>>

\* faulty variant: the new quantity is not rounded
adjust_new_q_unrounded(prev_q, change) == prev_q + change

\* new_q = round(prev_q + change, 3)   (main.py:861)
adjust_new_q(prev_q, change) == round3(prev_q + change)

\* faulty variant: no adjustment is rejected
adjust_rejects_never(new_q) == FALSE

\* if new_q < 0: raise HTTPException(400)   (main.py:862-863)
adjust_rejects(new_q) == new_q < 0

\* POST /api/inventory/{item_id}/adjust (main.py:853-885)
adjust_inventory(item_id, change, reason) ==
    /\ IF item_id \notin ItemIds
       THEN /\ call' = Call("adjust_inventory", item_id, change, 404, 0, NULL, <<>>)
            /\ UNCHANGED <<inventory_items, inventory_transactions>>
       ELSE LET prev_q == inventory_items[item_id].current_quantity
                new_q  == adjust_new_q(prev_q, change)
            IN  IF adjust_rejects(new_q)
                THEN /\ call' = Call("adjust_inventory", item_id, change, 400, 0,
                                     NULL, <<>>)
                     /\ UNCHANGED <<inventory_items, inventory_transactions>>
                ELSE /\ Len(inventory_transactions) < MaxTx
                     /\ inventory_items' = SetQuantity(inventory_items, item_id, new_q)
                     /\ inventory_transactions' =
                            InsertTransaction(inventory_transactions,
                                InventoryTransaction(item_id, change, prev_q, new_q,
                                                     reason, "manual", NULL))
                     /\ call' = Call("adjust_inventory", item_id, change, 200,
                                     new_q, NULL, <<item_id>>)
    /\ UNCHANGED <<recipes, recipe_ingredients, production_plans, production_plan_items,
                   grocery_lists, grocery_list_items, procs>>

\* faulty variant: a count writes the quantity without a ledger row
count_row_unlogged(st, row) ==
    IF row.id \notin 1 .. Len(st.items)
    THEN st
    ELSE [items  |-> SetQuantity(st.items, row.id, row.current_quantity),
          txs    |-> st.txs,
          writes |-> Append(st.writes, row.id)]

\* faulty variant: the previous quantity is read after the update
count_row_prev_after(st, row) ==
    IF row.id \notin 1 .. Len(st.items)
    THEN st
    ELSE LET counted_q == row.current_quantity
         IN  [items  |-> SetQuantity(st.items, row.id, counted_q),
              txs    |-> InsertTransaction(st.txs,
                             InventoryTransaction(row.id, 0, counted_q, counted_q,
                                                  "counted", "count_page", NULL)),
              writes |-> Append(st.writes, row.id)]

\* One row of a physical count (main.py:892-905) applied to the tables
\* st = [items, txs, writes]: a row whose id is unknown is skipped.
count_row(st, row) ==
    IF row.id \notin 1 .. Len(st.items)
    THEN st
    ELSE LET prev_q    == st.items[row.id].current_quantity
             counted_q == row.current_quantity
             change    == round3(counted_q - prev_q)
         IN  [items  |-> SetQuantity(st.items, row.id, counted_q),
              txs    |-> InsertTransaction(st.txs,
                             InventoryTransaction(row.id, change, prev_q, counted_q,
                                                  "counted", "count_page", NULL)),
              writes |-> Append(st.writes, row.id)]

\* faulty variant: the loop ends at the first row whose id is unknown
RECURSIVE count_rows_until_unknown(_, _)
count_rows_until_unknown(st, rows) ==
    IF rows = <<>> \/ Head(rows).id \notin 1 .. Len(st.items) THEN st
    ELSE count_rows_until_unknown(count_row(st, Head(rows)), Tail(rows))

\* for row in rows: ...   (main.py:891)
RECURSIVE count_rows(_, _)
count_rows(st, rows) ==
    IF rows = <<>> THEN st ELSE count_rows(count_row(st, Head(rows)), Tail(rows))

\* POST /api/inventory/count (main.py:888-906); it returns len(rows)
inventory_count(rows) ==
    LET st == count_rows([items |-> inventory_items, txs |-> inventory_transactions,
                          writes |-> <<>>], rows)
    IN  /\ Len(st.txs) <= MaxTx
        /\ inventory_items' = st.items
        /\ inventory_transactions' = st.txs
        /\ call' = Call("inventory_count", NULL, 0, 200, Len(rows), NULL, st.writes)
        /\ UNCHANGED <<recipes, recipe_ingredients, production_plans,
                       production_plan_items, grocery_lists, grocery_list_items, procs>>

\* One row of an inventory CSV (main.py:701-787) applied to
\* st = [items, txs, writes, imported]: a row without a name is skipped, a
\* row naming an existing item overwrites it, any other row creates an item;
\* both kinds append a transaction row.
import_row(st, row) ==
    IF row.name = ""
    THEN st
    ELSE LET existing == item_id_by_name(st.items, row.name)
         IN  IF existing # NULL
             THEN LET prev_q == st.items[existing].current_quantity
                      change == round3(row.current_quantity - prev_q)
                  IN  [items |-> [st.items EXCEPT
                                     ![existing].base_unit = row.base_unit,
                                     ![existing].current_quantity = row.current_quantity,
                                     ![existing].cost_per_unit = row.cost_per_unit,
                                     ![existing].supplier = row.supplier],
                       txs |-> InsertTransaction(st.txs,
                                   InventoryTransaction(existing, change, prev_q,
                                       row.current_quantity, "import_csv",
                                       "inventory_import", NULL)),
                       writes |-> Append(st.writes, existing),
                       imported |-> st.imported + 1]
             ELSE [items |-> Append(st.items,
                                 InventoryItem(row.name, row.base_unit,
                                     row.current_quantity, row.cost_per_unit,
                                     row.supplier)),
                   txs |-> InsertTransaction(st.txs,
                               InventoryTransaction(Len(st.items) + 1,
                                   row.current_quantity, 0, row.current_quantity,
                                   "import_csv", "inventory_import", NULL)),
                   writes |-> Append(st.writes, Len(st.items) + 1),
                   imported |-> st.imported + 1]

\* for row in reader: ...   (main.py:700)
RECURSIVE import_rows(_, _)
import_rows(st, rows) ==
    IF rows = <<>> THEN st ELSE import_rows(import_row(st, Head(rows)), Tail(rows))

\* POST /api/inventory/import-csv (main.py:679-788), for a CSV with the
\* required headers and at least one line
import_inventory_csv(rows) ==
    LET st == import_rows([items |-> inventory_items, txs |-> inventory_transactions,
                           writes |-> <<>>, imported |-> 0], rows)
    IN  /\ Len(st.txs) <= MaxTx
        /\ Len(st.items) <= MaxItems
        /\ inventory_items' = st.items
        /\ inventory_transactions' = st.txs
        /\ call' = Call("import_inventory_csv", NULL, 0, 200, st.imported, NULL,
                        st.writes)
        /\ UNCHANGED <<recipes, recipe_ingredients, production_plans,
                       production_plan_items, grocery_lists, grocery_list_items, procs>>

-----------------------------------------------------------------------------
(* Grocery lists and receiving: main.py:1035-1105. *)

\* POST /api/grocery-lists (main.py:1035-1042)
create_grocery_list(list_date) ==
    /\ Len(grocery_lists) < MaxLists
    /\ grocery_lists' = Append(grocery_lists, GroceryList(list_date))
    /\ call' = Call("create_grocery_list", NULL, 0, 200, 0,
                    Len(grocery_lists) + 1, <<>>)
    /\ UNCHANGED <<inventory_items, inventory_transactions, recipes, recipe_ingredients,
                   production_plans, production_plan_items, grocery_list_items, procs>>

\* faulty variant: name, unit and vendor are joined from the inventory item
list_items_joined(items, gitems, list_id) ==
    LET mine == SelectSeq(gitems, LAMBDA g : g.grocery_list_id = list_id)
    IN  [k \in 1 .. Len(mine) |->
            IF mine[k].inventory_item_id \in 1 .. Len(items)
            THEN [mine[k] EXCEPT !.name = items[mine[k].inventory_item_id].name,
                                 !.unit = items[mine[k].inventory_item_id].base_unit,
                                 !.vendor = items[mine[k].inventory_item_id].supplier]
            ELSE mine[k]]

\* SELECT * FROM grocery_list_items WHERE grocery_list_id=? ORDER BY id
\* (main.py:1050)
list_items(items, gitems, list_id) ==
    SelectSeq(gitems, LAMBDA g : g.grocery_list_id = list_id)

\* GET /api/grocery-lists/{list_id} (main.py:1045-1051)
get_grocery_list(list_id) ==
    /\ IF list_id \notin 1 .. Len(grocery_lists)
       THEN call' = CallRows("get_grocery_list", list_id, 0, 404, <<>>)
       ELSE call' = CallRows("get_grocery_list", list_id, 0, 200,
                             list_items(inventory_items, grocery_list_items, list_id))
    /\ UNCHANGED <<tables, procs>>

\* POST /api/grocery-lists/{list_id}/items (main.py:1054-1078).  name and
\* unit are None when the payload leaves them out; they are then copied from
\* the linked inventory item when there is one (the vendor too).  The name
\* and unit columns are NOT NULL (db.py:134-136).  The connection does not
\* enforce foreign keys (db.py:203-208), so a link to no item is stored.
add_grocery_item(list_id, item_id, name, unit, qty) ==
    /\ Len(grocery_list_items) < MaxGroceryItems
    /\ IF list_id \notin 1 .. Len(grocery_lists)
       THEN /\ call' = Call("add_grocery_item", list_id, qty, 404, 0, NULL, <<>>)
            /\ UNCHANGED grocery_list_items
       ELSE LET fill   == item_id # NULL /\ (name = None \/ unit = None)
                           /\ item_id \in ItemIds
                name2  == IF fill /\ name = None
                          THEN inventory_items[item_id].name ELSE name
                unit2  == IF fill /\ unit = None
                          THEN inventory_items[item_id].base_unit ELSE unit
                vendor == IF fill THEN inventory_items[item_id].supplier ELSE None
            IN  IF name2 = None \/ unit2 = None
                THEN /\ call' = Call("add_grocery_item", list_id, qty, 500, 0,
                                     NULL, <<>>)
                     /\ UNCHANGED grocery_list_items
                ELSE /\ grocery_list_items' =
                            Append(grocery_list_items,
                                GroceryListItem(list_id, item_id, name2, qty, unit2,
                                                vendor, "needed", FALSE))
                     /\ call' = Call("add_grocery_item", list_id, qty, 200, 0,
                                     Len(grocery_list_items) + 1, <<>>)
    /\ UNCHANGED <<inventory_items, inventory_transactions, recipes, recipe_ingredients,
                   production_plans, production_plan_items, grocery_lists, procs>>

\* new_status = payload.get("status", item["status"])   (main.py:1087);
\* status is None when the payload carries none
new_status_of(item, status) == IF status = None THEN item.status ELSE status

\* faulty variant: the received quantity replaces the stock
receive_new_q_replacing(prev_q, qty) == round3(qty)

\* faulty variant: the received quantity is not rounded
receive_new_q_unrounded(prev_q, qty) == prev_q + qty

\* new_q = round(prev_q + float(item["quantity"]), 3)   (main.py:1095)
receive_new_q(prev_q, qty) == round3(prev_q + qty)

\* faulty variant: a line without a link is not refused
receive_rejects_never(item) == FALSE

\* if not item.get("inventory_item_id"): raise HTTPException(400)
\* (main.py:1091-1092)
receive_rejects(item) == item.inventory_item_id = NULL

\* PUT /api/grocery-items/{item_id} (main.py:1081-1105).  The status is
\* written first (main.py:1088), before anything is checked.  A link to no
\* inventory item makes inv None and the handler raise (500) at main.py:1094.
update_grocery_item(item_id, status) ==
    /\ IF item_id \notin 1 .. Len(grocery_list_items)
       THEN /\ call' = Call("update_grocery_item", item_id, 0, 404, 0, NULL, <<>>)
            /\ UNCHANGED <<inventory_items, inventory_transactions, grocery_list_items>>
       ELSE LET item       == grocery_list_items[item_id]
                new_status == new_status_of(item, status)
                inv_id     == item.inventory_item_id
            IN  /\ grocery_list_items' =
                       [grocery_list_items EXCEPT ![item_id].status = new_status]
                /\ IF new_status # "received"
                   THEN /\ call' = Call("update_grocery_item", item_id, 0, 200, 0,
                                        NULL, <<>>)
                        /\ UNCHANGED <<inventory_items, inventory_transactions>>
                   ELSE IF receive_rejects(item)
                   THEN /\ call' = Call("update_grocery_item", item_id, 0, 400, 0,
                                        NULL, <<>>)
                        /\ UNCHANGED <<inventory_items, inventory_transactions>>
                   ELSE IF inv_id \notin ItemIds
                   THEN /\ call' = Call("update_grocery_item", item_id, 0, 500, 0,
                                        NULL, <<>>)
                        /\ UNCHANGED <<inventory_items, inventory_transactions>>
                   ELSE LET prev_q == inventory_items[inv_id].current_quantity
                            new_q  == receive_new_q(prev_q, item.quantity)
                        IN  /\ Len(inventory_transactions) < MaxTx
                            /\ inventory_items' =
                                   SetQuantity(inventory_items, inv_id, new_q)
                            /\ inventory_transactions' =
                                   InsertTransaction(inventory_transactions,
                                       InventoryTransaction(inv_id, item.quantity,
                                           prev_q, new_q, "received", "grocery",
                                           item_id))
                            /\ call' = Call("update_grocery_item", item_id, 0,
                                            200, 0, NULL, <<inv_id>>)
    /\ UNCHANGED <<recipes, recipe_ingredients, production_plans, production_plan_items,
                   grocery_lists, procs>>

-----------------------------------------------------------------------------
(* The requirement aggregator: main.py:66-132.                             *)
(* Yields are whole numbers; a required quantity is the exact fraction     *)
(* num / den ticks until it is rounded.                                    *)

\* the recipe row with this id (the recipe exists)
recipe_by_id(rid) == recipes[CHOOSE k \in 1 .. Len(recipes) : recipes[k].id = rid]

\* faulty variant: the lines come back latest first (ORDER BY ri.id DESC)
get_recipe_ingredients_latest_first(items, rid) ==
    LET mine == SelectSeq(recipe_ingredients,
                    LAMBDA ri : ri.recipe_id = rid
                                /\ ri.inventory_item_id \in 1 .. Len(items))
    IN  [k \in 1 .. Len(mine) |-> mine[Len(mine) + 1 - k]]

\* get_recipe_ingredients (main.py:66-77): the lines of the recipe whose
\* inventory item exists (JOIN), ORDER BY ri.id, which is the table order
get_recipe_ingredients(items, rid) ==
    SelectSeq(recipe_ingredients,
              LAMBDA ri : ri.recipe_id = rid /\ ri.inventory_item_id \in 1 .. Len(items))

\* round(total, 2) on a cost: total is in ticks times cents, Unit of them
\* to the cent, and the result is in cents, the nearest one (Python rounds
\* the exact half to the even cent)
round2(total) ==
    LET q == total \div Unit
        r == total % Unit
    IN  IF 2 * r < Unit THEN q
        ELSE IF 2 * r > Unit THEN q + 1
        ELSE IF q % 2 = 0 THEN q ELSE q + 1

\* total += float(i["quantity"]) * float(i["cost_per_unit"])   (main.py:82-83)
RECURSIVE cost_total(_, _)
cost_total(items, ings) ==
    IF ings = <<>> THEN 0
    ELSE Head(ings).quantity * items[Head(ings).inventory_item_id].cost_per_unit
         + cost_total(items, Tail(ings))

\* faulty variant: the cost of the first line only
recipe_cost_first_line(items, rid) ==
    LET ings == get_recipe_ingredients(items, rid)
    IN  round2(cost_total(items, IF ings = <<>> THEN <<>> ELSE << Head(ings) >>))

\* recipe_cost (main.py:80-84), in cents
recipe_cost(items, rid) == round2(cost_total(items, get_recipe_ingredients(items, rid)))

\* SELECT ... FROM production_plan_items ppi JOIN recipes r ...
\* WHERE ppi.production_plan_id = ?   (main.py:88-97)
plan_items_of(plan_id) ==
    SelectSeq(production_plan_items,
              LAMBDA p : /\ p.production_plan_id = plan_id
                         /\ \E k \in 1 .. Len(recipes) : recipes[k].id = p.recipe_id)

\* required = quantity * ratio, ratio = target_yield_amount / yield_amount
\* (main.py:101-104), one entry per ingredient line of one plan item
RECURSIVE lines_of_item(_, _, _)
lines_of_item(ings, target, yield) ==
    IF ings = <<>> THEN <<>>
    ELSE << [item_id |-> Head(ings).inventory_item_id,
             num |-> Head(ings).quantity * target, den |-> yield] >>
         \o lines_of_item(Tail(ings), target, yield)

\* for p in items: for ing in get_recipe_ingredients(...)   (main.py:100-102)
RECURSIVE lines_of_plan(_, _)
lines_of_plan(items, pitems) ==
    IF pitems = <<>> THEN <<>>
    ELSE lines_of_item(get_recipe_ingredients(items, Head(pitems).recipe_id),
                       Head(pitems).target_yield_amount,
                       recipe_by_id(Head(pitems).recipe_id).yield_amount)
         \o lines_of_plan(items, Tail(pitems))

\* position of the item in agg, 0 when it is not in agg yet
agg_index(agg, item_id) ==
    IF \E k \in 1 .. Len(agg) : agg[k].inventory_item_id = item_id
    THEN CHOOSE k \in 1 .. Len(agg) : agg[k].inventory_item_id = item_id
    ELSE 0

\* faulty variant: a later line replaces the quantity required so far
agg_add_overwrite(agg, line, items) ==
    LET k == agg_index(agg, line.item_id)
    IN  IF k = 0
        THEN Append(agg, [inventory_item_id |-> line.item_id,
                          name |-> items[line.item_id].name,
                          unit |-> items[line.item_id].base_unit,
                          supplier |-> items[line.item_id].supplier,
                          available_quantity |-> items[line.item_id].current_quantity,
                          num |-> line.num, den |-> line.den])
        ELSE [agg EXCEPT ![k].num = line.num, ![k].den = line.den]

\* faulty variant: every line takes the on-hand quantity anew
agg_add_resnapshot(agg, line, items) ==
    LET k == agg_index(agg, line.item_id)
    IN  IF k = 0
        THEN Append(agg, [inventory_item_id |-> line.item_id,
                          name |-> items[line.item_id].name,
                          unit |-> items[line.item_id].base_unit,
                          supplier |-> items[line.item_id].supplier,
                          available_quantity |-> items[line.item_id].current_quantity,
                          num |-> line.num, den |-> line.den])
        ELSE [agg EXCEPT ![k].num = agg[k].num * line.den + line.num * agg[k].den,
                         ![k].den = agg[k].den * line.den,
                         ![k].available_quantity =
                             items[line.item_id].current_quantity]

\* if item_id not in agg: agg[item_id] = {snapshot of the inventory row};
\* agg[item_id]["required_quantity"] += required   (main.py:105-118)
agg_add(agg, line, items) ==
    LET k == agg_index(agg, line.item_id)
    IN  IF k = 0
        THEN Append(agg, [inventory_item_id |-> line.item_id,
                          name |-> items[line.item_id].name,
                          unit |-> items[line.item_id].base_unit,
                          supplier |-> items[line.item_id].supplier,
                          available_quantity |-> items[line.item_id].current_quantity,
                          num |-> line.num, den |-> line.den])
        ELSE [agg EXCEPT ![k].num = agg[k].num * line.den + line.num * agg[k].den,
                         ![k].den = agg[k].den * line.den]

RECURSIVE agg_lines(_, _, _)
agg_lines(agg, lines, items) ==
    IF lines = <<>> THEN agg
    ELSE agg_lines(agg_add(agg, Head(lines), items), Tail(lines), items)

\* round(num / den, 3) in ticks, for den > 0: the nearest multiple of 0.001
round3_fraction(num, den) ==
    TicksPerMilli * ((2 * num + TicksPerMilli * den) \div (2 * TicksPerMilli * den))

\* faulty variant: the shortage is not clamped at zero
shortage_unclamped(required, available) == round3(required - available)

\* shortage = max(required - available, 0.0), rounded   (main.py:122-128)
shortage_of(required, available) == round3(max(required - available, 0))

\* one line of the output (main.py:121-130)
requirement_line(r) ==
    LET required == round3_fraction(r.num, r.den)
    IN  [inventory_item_id |-> r.inventory_item_id, name |-> r.name, unit |-> r.unit,
         supplier |-> r.supplier, required_quantity |-> required,
         available_quantity |-> r.available_quantity,
         shortage_quantity |-> shortage_of(required, r.available_quantity)]

\* Python's order of the item names the model uses (str comparison)
NameRank == [n \in {"Basil", "Garlic", "Roma", "Salt", "Tomato"} |->
                CASE n = "Basil" -> 1 [] n = "Garlic" -> 2 [] n = "Roma" -> 3
                  [] n = "Salt" -> 4 [] n = "Tomato" -> 5]

\* faulty variant: the output is left in aggregation order
sort_by_name_unsorted(out) == out

\* output.sort(key=lambda x: x["name"])   (main.py:131): a stable sort
RECURSIVE sort_by_name(_)
sort_by_name(out) ==
    IF out = <<>> THEN <<>>
    ELSE LET x    == out[Len(out)]
             rest == sort_by_name(SubSeq(out, 1, Len(out) - 1))
         IN  SelectSeq(rest, LAMBDA y : NameRank[y.name] <= NameRank[x.name])
             \o <<x>>
             \o SelectSeq(rest, LAMBDA y : NameRank[y.name] > NameRank[x.name])

RECURSIVE map_requirement_lines(_)
map_requirement_lines(agg) ==
    IF agg = <<>> THEN <<>>
    ELSE <<requirement_line(Head(agg))>> \o map_requirement_lines(Tail(agg))

\* calc_plan_requirements (main.py:87-132) on the inventory table `items`
calc_plan_requirements(items, plan_id) ==
    sort_by_name(map_requirement_lines(
        agg_lines(<<>>, lines_of_plan(items, plan_items_of(plan_id)), items)))

-----------------------------------------------------------------------------
(* Recipes: main.py:346-601.  A recipe is deleted only where none is       *)
(* created, so a new recipe's id is the number of rows plus one.           *)

\* for i in ingredients: if the inventory item is unknown raise 400, else
\* INSERT INTO recipe_ingredients (main.py:486-496, 527-535): the lines
\* inserted before the first unknown item stay
RECURSIVE ingredient_rows(_, _)
ingredient_rows(rid, ings) ==
    IF ings = <<>> \/ Head(ings).inventory_item_id \notin ItemIds THEN <<>>
    ELSE << RecipeIngredient(rid, Head(ings).inventory_item_id, Head(ings).quantity) >>
         \o ingredient_rows(rid, Tail(ings))

\* if yield_amount <= 0: raise HTTPException(400)   (main.py:464-465, 507-508)
yield_rejected(yield_amount) == yield_amount <= 0

\* POST /api/recipes (main.py:459-496)
create_recipe(name, yield_amount, ingredients) ==
    /\ Len(recipes) < MaxRecipes
    /\ IF name = "" \/ yield_rejected(yield_amount)
       THEN /\ call' = Call("create_recipe", NULL, yield_amount, 400, 0, NULL, <<>>)
            /\ UNCHANGED <<recipes, recipe_ingredients>>
       ELSE LET rid  == Len(recipes) + 1
                rows == ingredient_rows(rid, ingredients)
            IN  /\ recipes' = Append(recipes, Recipe(rid, name, yield_amount))
                /\ recipe_ingredients' = recipe_ingredients \o rows
                /\ call' = IF Len(rows) < Len(ingredients)
                           THEN Call("create_recipe", NULL, yield_amount, 400, 0,
                                     NULL, <<>>)
                           ELSE Call("create_recipe", NULL, yield_amount, 200, 0,
                                     rid, <<>>)
    /\ UNCHANGED <<inventory_items, inventory_transactions, production_plans,
                   production_plan_items, grocery_lists, grocery_list_items, procs>>

\* position of the recipe with this id, 0 when there is none
recipe_index(rid) ==
    IF \E k \in 1 .. Len(recipes) : recipes[k].id = rid
    THEN CHOOSE k \in 1 .. Len(recipes) : recipes[k].id = rid
    ELSE 0

\* DELETE FROM recipe_ingredients WHERE recipe_id=?
delete_ingredients(ris, rid) == SelectSeq(ris, LAMBDA ri : ri.recipe_id # rid)

\* PUT /api/recipes/{recipe_id} (main.py:499-535)
update_recipe(recipe_id, name, yield_amount, ingredients) ==
    /\ IF recipe_index(recipe_id) = 0
       THEN /\ call' = Call("update_recipe", recipe_id, yield_amount, 404, 0, NULL, <<>>)
            /\ UNCHANGED <<recipes, recipe_ingredients>>
       ELSE IF name = "" \/ yield_rejected(yield_amount)
       THEN /\ call' = Call("update_recipe", recipe_id, yield_amount, 400, 0, NULL, <<>>)
            /\ UNCHANGED <<recipes, recipe_ingredients>>
       ELSE LET rows == ingredient_rows(recipe_id, ingredients)
            IN  /\ recipes' = [recipes EXCEPT ![recipe_index(recipe_id)] =
                                  Recipe(recipe_id, name, yield_amount)]
                /\ recipe_ingredients' =
                       delete_ingredients(recipe_ingredients, recipe_id) \o rows
                /\ call' = Call("update_recipe", recipe_id, yield_amount,
                                IF Len(rows) < Len(ingredients) THEN 400 ELSE 200,
                                0, NULL, <<>>)
    /\ UNCHANGED <<inventory_items, inventory_transactions, production_plans,
                   production_plan_items, grocery_lists, grocery_list_items, procs>>

\* the ingredient lines a copy gets (main.py:552, 571-575)
RECURSIVE copy_rows(_, _)
copy_rows(rid, ings) ==
    IF ings = <<>> THEN <<>>
    ELSE << RecipeIngredient(rid, Head(ings).inventory_item_id, Head(ings).quantity) >>
         \o copy_rows(rid, Tail(ings))

\* POST /api/recipes/{recipe_id}/duplicate (main.py:547-576)
duplicate_recipe(recipe_id) ==
    /\ IF recipe_index(recipe_id) = 0
       THEN /\ call' = Call("duplicate_recipe", recipe_id, 0, 404, 0, NULL, <<>>)
            /\ UNCHANGED <<recipes, recipe_ingredients>>
       ELSE LET recipe == recipe_by_id(recipe_id)
                new_id == Len(recipes) + 1
            IN  /\ Len(recipes) < MaxRecipes
                /\ recipes' = Append(recipes, Recipe(new_id, recipe.name \o " (Copy)",
                                                     recipe.yield_amount))
                /\ recipe_ingredients' =
                       recipe_ingredients
                       \o copy_rows(new_id,
                                    get_recipe_ingredients(inventory_items, recipe_id))
                /\ call' = Call("duplicate_recipe", recipe_id, 0, 200, 0, new_id, <<>>)
    /\ UNCHANGED <<inventory_items, inventory_transactions, production_plans,
                   production_plan_items, grocery_lists, grocery_list_items, procs>>

\* float(row.get("yield_amount") or 1)   (main.py:376).  A cell is <<>>
\* when it is empty and <<n>> when it holds the number n: an empty cell is 1.
csv_yield(cell) == IF cell = <<>> THEN 1 ELSE cell[1]

\* position of the group with this recipe name, 0 when there is none
group_index(grouped, name) ==
    IF \E k \in 1 .. Len(grouped) : grouped[k].name = name
    THEN CHOOSE k \in 1 .. Len(grouped) : grouped[k].name = name
    ELSE 0

\* One CSV row in the grouping loop (main.py:369-395) applied to
\* st = [grouped, ok]: a row without a recipe name is skipped, the first row
\* of a name fixes the recipe's yield, an unknown ingredient name raises 400.
group_row(st, row) ==
    IF ~ st.ok \/ row.recipe_name = "" THEN st
    ELSE LET k0 == group_index(st.grouped, row.recipe_name)
             g1 == IF k0 # 0 THEN st.grouped
                   ELSE Append(st.grouped,
                               [name |-> row.recipe_name,
                                yield_amount |-> csv_yield(row.yield_amount),
                                ingredients |-> <<>>])
             k  == group_index(g1, row.recipe_name)
             inv == item_id_by_name(inventory_items, row.ingredient_name)
         IN  IF row.ingredient_name = "" THEN [grouped |-> g1, ok |-> TRUE]
             ELSE IF inv = NULL THEN [grouped |-> g1, ok |-> FALSE]
             ELSE [grouped |-> [g1 EXCEPT ![k].ingredients =
                                   Append(@, [inventory_item_id |-> inv,
                                              quantity |-> row.ingredient_quantity])],
                   ok |-> TRUE]

RECURSIVE group_rows(_, _)
group_rows(st, rows) ==
    IF rows = <<>> THEN st ELSE group_rows(group_row(st, Head(rows)), Tail(rows))

\* position of the first recipe with this name, 0 when there is none
\* (SELECT id FROM recipes WHERE name=?, main.py:399)
recipe_index_by_name(rs, name) ==
    IF \E k \in 1 .. Len(rs) : rs[k].name = name
    THEN CHOOSE k \in 1 .. Len(rs) :
             rs[k].name = name /\ \A j \in 1 .. k - 1 : rs[j].name # name
    ELSE 0

\* One group in the writing loop (main.py:398-443) applied to
\* st = [recipes, ris]: a recipe of that name is overwritten and its
\* ingredient lines replaced, else a recipe is inserted; the yield is stored
\* as it was read.
import_group(st, g) ==
    LET k   == recipe_index_by_name(st.recipes, g.name)
        rid == IF k # 0 THEN st.recipes[k].id ELSE Len(st.recipes) + 1
        rs  == IF k # 0
               THEN [st.recipes EXCEPT ![k].yield_amount = g.yield_amount]
               ELSE Append(st.recipes, Recipe(rid, g.name, g.yield_amount))
        ris == IF k # 0 THEN delete_ingredients(st.ris, rid) ELSE st.ris
    IN  [recipes |-> rs, ris |-> ris \o copy_rows(rid, g.ingredients)]

RECURSIVE import_groups(_, _)
import_groups(st, grouped) ==
    IF grouped = <<>> THEN st
    ELSE import_groups(import_group(st, Head(grouped)), Tail(grouped))

\* POST /api/recipes/import-csv (main.py:346-447), for a CSV with the
\* required headers and at least one row
import_recipes_csv(rows) ==
    /\ LET g == group_rows([grouped |-> <<>>, ok |-> TRUE], rows)
           st == import_groups([recipes |-> recipes, ris |-> recipe_ingredients],
                               g.grouped)
       IN  IF ~ g.ok
           THEN /\ call' = Call("import_recipes_csv", NULL, 0, 400, 0, NULL, <<>>)
                /\ UNCHANGED <<recipes, recipe_ingredients>>
           ELSE /\ Len(st.recipes) <= MaxRecipes
                /\ recipes' = st.recipes
                /\ recipe_ingredients' = st.ris
                /\ call' = Call("import_recipes_csv", NULL, 0, 200, Len(g.grouped),
                                NULL, <<>>)
    /\ UNCHANGED <<inventory_items, inventory_transactions, production_plans,
                   production_plan_items, grocery_lists, grocery_list_items, procs>>

\* faulty variant: the quantity is returned as stored
scale_quantity_unscaled(quantity, target_yield, yield_amount) == round3(quantity)

\* DELETE /api/recipes/{recipe_id} (main.py:538-544).  Whether the database
\* enforces the schema's foreign keys depends on the build.  On SQLite,
\* PRAGMA foreign_keys = ON is run by init_db's connection alone
\* (db.py:17-18, 238) and every request opens its own connection
\* (db.py:203-208), so with SQLite's default setting nothing is enforced
\* and the DELETE removes the recipes row only.  Where the keys are
\* enforced (Postgres), the ingredient lines go with the recipe (ON DELETE
\* CASCADE, db.py:65) and the DELETE fails when a plan item references the
\* recipe (db.py:116).
delete_recipe(recipe_id, foreign_keys) ==
    /\ IF recipe_index(recipe_id) = 0
       THEN /\ call' = Call("delete_recipe", recipe_id, 0, 404, 0, NULL, <<>>)
            /\ UNCHANGED <<recipes, recipe_ingredients>>
       ELSE IF foreign_keys /\ \E k \in 1 .. Len(production_plan_items) :
                                   production_plan_items[k].recipe_id = recipe_id
       THEN /\ call' = Call("delete_recipe", recipe_id, 0, 500, 0, NULL, <<>>)
            /\ UNCHANGED <<recipes, recipe_ingredients>>
       ELSE /\ recipes' = SelectSeq(recipes, LAMBDA r : r.id # recipe_id)
            /\ recipe_ingredients' =
                   IF foreign_keys
                   THEN delete_ingredients(recipe_ingredients, recipe_id)
                   ELSE recipe_ingredients
            /\ call' = Call("delete_recipe", recipe_id, 0, 200, 0, NULL, <<>>)
    /\ UNCHANGED <<inventory_items, inventory_transactions, production_plans,
                   production_plan_items, grocery_lists, grocery_list_items, procs>>

\* faulty variant: an unknown recipe is answered as a recipe without lines
get_recipe_lenient(recipe_id) ==
    /\ call' = [CallRows("get_recipe", recipe_id, 0, 200,
                         get_recipe_ingredients(inventory_items, recipe_id))
                   EXCEPT !.ret = recipe_cost(inventory_items, recipe_id)]
    /\ UNCHANGED <<tables, procs>>

\* GET /api/recipes/{recipe_id} (main.py:450-456): the ingredient lines and
\* cost_total, returned as the number of the response
get_recipe(recipe_id) ==
    /\ IF recipe_index(recipe_id) = 0
       THEN call' = CallRows("get_recipe", recipe_id, 0, 404, <<>>)
       ELSE call' = [CallRows("get_recipe", recipe_id, 0, 200,
                              get_recipe_ingredients(inventory_items, recipe_id))
                        EXCEPT !.ret = recipe_cost(inventory_items, recipe_id)]
    /\ UNCHANGED <<tables, procs>>

\* round(quantity * target_yield / yield_amount, 3) for yield_amount # 0
\* (main.py:584, 590)
scale_quantity(quantity, target_yield, yield_amount) ==
    IF yield_amount > 0
    THEN round3_fraction(quantity * target_yield, yield_amount)
    ELSE round3_fraction(-(quantity * target_yield), -yield_amount)

RECURSIVE scaled_lines(_, _, _, _)
scaled_lines(items, ings, target_yield, yield_amount) ==
    IF ings = <<>> THEN <<>>
    ELSE << [ingredient |-> items[Head(ings).inventory_item_id].name,
             quantity |-> scale_quantity(Head(ings).quantity, target_yield,
                                         yield_amount)] >>
         \o scaled_lines(items, Tail(ings), target_yield, yield_amount)

\* GET /api/recipes/{recipe_id}/scale?target_yield= (main.py:578-601).  A
\* stored yield of 0 makes the division raise (500).
scale_recipe(recipe_id, target_yield) ==
    /\ IF recipe_index(recipe_id) = 0
       THEN call' = CallRows("scale_recipe", recipe_id, target_yield, 404, <<>>)
       ELSE LET recipe == recipe_by_id(recipe_id)
            IN  IF recipe.yield_amount = 0
                THEN call' = CallRows("scale_recipe", recipe_id, target_yield, 500, <<>>)
                ELSE call' = CallRows("scale_recipe", recipe_id, target_yield, 200,
                                 scaled_lines(inventory_items,
                                     get_recipe_ingredients(inventory_items, recipe_id),
                                     target_yield, recipe.yield_amount))
    /\ UNCHANGED <<tables, procs>>

-----------------------------------------------------------------------------
(* Production plans and the procurement bridge: main.py:931-1025. *)

\* POST /api/production-plans (main.py:931-941)
create_production_plan(plan_date) ==
    /\ Len(production_plans) < MaxPlans
    /\ production_plans' = Append(production_plans, [plan_date |-> plan_date])
    /\ call' = Call("create_production_plan", NULL, 0, 200, 0,
                    Len(production_plans) + 1, <<>>)
    /\ UNCHANGED <<inventory_items, inventory_transactions, recipes, recipe_ingredients,
                   production_plan_items, grocery_lists, grocery_list_items, procs>>

\* POST /api/production-plans/{plan_id}/items (main.py:963-979)
add_production_item(plan_id, recipe_id, target) ==
    /\ Len(production_plan_items) < MaxPlanItems
    /\ IF plan_id \notin 1 .. Len(production_plans)
       THEN /\ call' = Call("add_production_item", plan_id, target, 404, 0, NULL, <<>>)
            /\ UNCHANGED production_plan_items
       ELSE IF target <= 0 \/ ~ \E k \in 1 .. Len(recipes) : recipes[k].id = recipe_id
       THEN /\ call' = Call("add_production_item", plan_id, target, 400, 0, NULL, <<>>)
            /\ UNCHANGED production_plan_items
       ELSE /\ production_plan_items' =
                  Append(production_plan_items,
                         [production_plan_id |-> plan_id, recipe_id |-> recipe_id,
                          target_yield_amount |-> target])
            /\ call' = Call("add_production_item", plan_id, target, 200, 0,
                            Len(production_plan_items) + 1, <<>>)
    /\ UNCHANGED <<inventory_items, inventory_transactions, recipes, recipe_ingredients,
                   production_plans, grocery_lists, grocery_list_items, procs>>

\* faulty variant: reading the plan takes the required quantities out of stock
get_production_plan_reserving(plan_id) ==
    /\ plan_id \in 1 .. Len(production_plans)
    /\ LET req == calc_plan_requirements(inventory_items, plan_id)
       IN  /\ call' = CallRows("get_production_plan", plan_id, 0, 200, req)
           /\ inventory_items' =
                  [i \in ItemIds |->
                      IF \E k \in 1 .. Len(req) : req[k].inventory_item_id = i
                      THEN LET k == CHOOSE k \in 1 .. Len(req) :
                                        req[k].inventory_item_id = i
                           IN  [inventory_items[i] EXCEPT !.current_quantity =
                                   @ - req[k].required_quantity]
                      ELSE inventory_items[i]]
    /\ UNCHANGED <<inventory_transactions, recipes, recipe_ingredients,
                   production_plans, production_plan_items, grocery_lists,
                   grocery_list_items, procs>>

\* GET /api/production-plans/{plan_id} (main.py:944-960): the response's
\* requirements
get_production_plan(plan_id) ==
    /\ IF plan_id \notin 1 .. Len(production_plans)
       THEN call' = CallRows("get_production_plan", plan_id, 0, 404, <<>>)
       ELSE call' = CallRows("get_production_plan", plan_id, 0, 200,
                             calc_plan_requirements(inventory_items, plan_id))
    /\ UNCHANGED <<tables, procs>>

\* faulty variant: every requirement line is pushed, short or not
shortages_all(items, plan_id) == calc_plan_requirements(items, plan_id)

\* shortages = [s for s in calc_plan_requirements(plan_id)
\*              if s["shortage_quantity"] > 0]   (main.py:988)
shortages_of(items, plan_id) ==
    SelectSeq(calc_plan_requirements(items, plan_id), LAMBDA s : s.shortage_quantity > 0)

\* faulty variant: the latest open list is taken whatever its date
active_list_any_date(lists, list_date) ==
    IF \E k \in 1 .. Len(lists) : lists[k].status = "open"
    THEN CHOOSE k \in 1 .. Len(lists) :
             /\ lists[k].status = "open"
             /\ \A j \in 1 .. Len(lists) : lists[j].status = "open" => j <= k
    ELSE NULL

\* SELECT id FROM grocery_lists WHERE list_date=? AND status='open'
\* ORDER BY id DESC LIMIT 1   (main.py:992); NULL when there is none
active_list(lists, list_date) ==
    LET open == {k \in 1 .. Len(lists) :
                    lists[k].list_date = list_date /\ lists[k].status = "open"}
    IN  IF open = {} THEN NULL ELSE CHOOSE k \in open : \A j \in open : j <= k

\* faulty variant: the lines lose the link to their inventory item
RECURSIVE shortage_rows_unlinked(_, _)
shortage_rows_unlinked(gl_id, shortages) ==
    IF shortages = <<>> THEN <<>>
    ELSE << GroceryListItem(gl_id, NULL, Head(shortages).name,
                            Head(shortages).shortage_quantity,
                            Head(shortages).unit, Head(shortages).supplier,
                            "needed", TRUE) >>
         \o shortage_rows_unlinked(gl_id, Tail(shortages))

\* faulty variant: the lines carry the required quantity, not the shortage
RECURSIVE shortage_rows_required(_, _)
shortage_rows_required(gl_id, shortages) ==
    IF shortages = <<>> THEN <<>>
    ELSE << GroceryListItem(gl_id, Head(shortages).inventory_item_id,
                            Head(shortages).name, Head(shortages).required_quantity,
                            Head(shortages).unit, Head(shortages).supplier,
                            "needed", TRUE) >>
         \o shortage_rows_required(gl_id, Tail(shortages))

\* rows.append((gl_id, s["inventory_item_id"], s["name"], s["shortage_quantity"],
\*              s["unit"], s.get("supplier"), "needed", 1, ...))   (main.py:1001-1015)
RECURSIVE shortage_rows(_, _)
shortage_rows(gl_id, shortages) ==
    IF shortages = <<>> THEN <<>>
    ELSE << GroceryListItem(gl_id, Head(shortages).inventory_item_id,
                            Head(shortages).name, Head(shortages).shortage_quantity,
                            Head(shortages).unit, Head(shortages).supplier,
                            "needed", TRUE) >>
         \o shortage_rows(gl_id, Tail(shortages))

\* faulty variant: a line for an item the list already holds is merged into
\* the line held
insert_grocery_rows_merged(items, rows) ==
    LET same(a, b) == /\ a.grocery_list_id = b.grocery_list_id
                      /\ a.inventory_item_id = b.inventory_item_id
        held(r)    == \E k \in 1 .. Len(items) : same(items[k], r)
        merged     == [k \in 1 .. Len(items) |->
                          IF \E j \in 1 .. Len(rows) : same(items[k], rows[j])
                          THEN LET j == CHOOSE j \in 1 .. Len(rows) :
                                            same(items[k], rows[j])
                               IN  [items[k] EXCEPT !.quantity = @ + rows[j].quantity]
                          ELSE items[k]]
    IN  merged \o SelectSeq(rows, LAMBDA r : ~ held(r))

\* execute_many("INSERT INTO grocery_list_items ...", rows)   (main.py:1016-1024)
insert_grocery_rows(items, rows) == items \o rows

\* POST /api/production-plans/{plan_id}/send-shortages (main.py:982-1025)
send_shortages(plan_id) ==
    /\ IF plan_id \notin 1 .. Len(production_plans)
       THEN /\ call' = Call("send_shortages", plan_id, 0, 404, 0, NULL, <<>>)
            /\ UNCHANGED <<grocery_lists, grocery_list_items>>
       ELSE LET plan      == production_plans[plan_id]
                shortages == shortages_of(inventory_items, plan_id)
                active    == active_list(grocery_lists, plan.plan_date)
                gl_id     == IF active # NULL THEN active ELSE Len(grocery_lists) + 1
            IN  IF shortages = <<>>
                THEN /\ call' = Call("send_shortages", plan_id, 0, 200, 0, NULL, <<>>)
                     /\ UNCHANGED <<grocery_lists, grocery_list_items>>
                ELSE /\ Len(grocery_list_items) + Len(shortages) <= MaxShortageItems
                     /\ grocery_lists' =
                            IF active # NULL THEN grocery_lists
                            ELSE Append(grocery_lists, GroceryList(plan.plan_date))
                     /\ grocery_list_items' =
                            insert_grocery_rows(grocery_list_items,
                                                shortage_rows(gl_id, shortages))
                     /\ call' = Call("send_shortages", plan_id, 0, 200, Len(shortages),
                                     gl_id, <<>>)
    /\ UNCHANGED <<inventory_items, inventory_transactions, recipes, recipe_ingredients,
                   production_plans, production_plan_items, procs>>

-----------------------------------------------------------------------------
(* Requests served concurrently.  FastAPI runs each `def` handler on a     *)
(* worker thread, and every query_one()/execute() opens its own            *)
(* connection and commits on its own (db.py:245-263, 289-295): a handler   *)
(* is a sequence of separately committed statements, and what is committed *)
(* is what any other request reads.                                        *)

\* handler threads
NumWorkers == 2

Workers == 1 .. NumWorkers

\* a worker: where its handler stands and the handler's local variables
Worker(pc, id, change, prev_q, new_q, inv_id) ==
    [pc |-> pc, id |-> id, change |-> change, prev_q |-> prev_q, new_q |-> new_q,
     inv_id |-> inv_id]

Idle == Worker("idle", NULL, 0, 0, 0, NULL)

\* ledger writes begun and not finished
InFlight == Cardinality({w \in Workers : procs[w].pc \notin {"idle", "crashed"}})

\* a ledger write is begun only while the ledger has room for its row
Room == Len(inventory_transactions) + InFlight < MaxTx

\* adjust_inventory, main.py:855-863: read the item, compute, check
adjust_read(w, item_id, change) ==
    /\ procs[w].pc = "idle"
    /\ IF item_id \notin ItemIds
       THEN /\ call' = Call("adjust_inventory", item_id, change, 404, 0, NULL, <<>>)
            /\ UNCHANGED procs
       ELSE LET prev_q == inventory_items[item_id].current_quantity
                new_q  == adjust_new_q(prev_q, change)
            IN  IF adjust_rejects(new_q)
                THEN /\ call' = Call("adjust_inventory", item_id, change, 400, 0,
                                     NULL, <<>>)
                     /\ UNCHANGED procs
                ELSE /\ Room
                     /\ procs' = [procs EXCEPT ![w] =
                            Worker("adjust_update", item_id, change, prev_q, new_q,
                                   item_id)]
                     /\ UNCHANGED call
    /\ UNCHANGED tables

\* the UPDATE of a ledger write, committed by itself (main.py:865, 1096)
ledger_update(w) ==
    /\ procs[w].pc \in {"adjust_update", "receive_update"}
    /\ inventory_items' = SetQuantity(inventory_items, procs[w].inv_id, procs[w].new_q)
    /\ procs' = [procs EXCEPT ![w].pc =
                    IF procs[w].pc = "adjust_update" THEN "adjust_insert"
                    ELSE "receive_insert"]
    /\ UNCHANGED <<inventory_transactions, recipes, recipe_ingredients, production_plans,
                   production_plan_items, grocery_lists, grocery_list_items, call>>

\* the INSERT of a ledger write, committed by itself (main.py:866-885,
\* 1097-1103), and the response
ledger_insert(w) ==
    /\ procs[w].pc \in {"adjust_insert", "receive_insert"}
    /\ LET adjust == procs[w].pc = "adjust_insert"
       IN  /\ inventory_transactions' =
                  InsertTransaction(inventory_transactions,
                      InventoryTransaction(procs[w].inv_id, procs[w].change,
                          procs[w].prev_q, procs[w].new_q,
                          IF adjust THEN "adjustment" ELSE "received",
                          IF adjust THEN "manual" ELSE "grocery",
                          IF adjust THEN NULL ELSE procs[w].id))
           /\ call' = Call(IF adjust THEN "adjust_inventory" ELSE "update_grocery_item",
                           procs[w].id, IF adjust THEN procs[w].change ELSE 0, 200,
                           IF adjust THEN procs[w].new_q ELSE 0, NULL,
                           <<procs[w].inv_id>>)
    /\ procs' = [procs EXCEPT ![w] = Idle]
    /\ UNCHANGED <<inventory_items, recipes, recipe_ingredients, production_plans,
                   production_plan_items, grocery_lists, grocery_list_items>>

\* update_grocery_item with status "received", main.py:1083-1092: read the
\* grocery item, write its status, check the link
receive_status(w, item_id) ==
    /\ procs[w].pc = "idle"
    /\ IF item_id \notin 1 .. Len(grocery_list_items)
       THEN /\ call' = Call("update_grocery_item", item_id, 0, 404, 0, NULL, <<>>)
            /\ UNCHANGED <<grocery_list_items, procs>>
       ELSE LET item == grocery_list_items[item_id]
            IN  /\ grocery_list_items' =
                       [grocery_list_items EXCEPT ![item_id].status = "received"]
                /\ IF receive_rejects(item)
                   THEN /\ call' = Call("update_grocery_item", item_id, 0, 400, 0,
                                        NULL, <<>>)
                        /\ UNCHANGED procs
                   ELSE /\ Room
                        /\ procs' = [procs EXCEPT ![w] =
                               Worker("receive_read", item_id, item.quantity, 0, 0,
                                      item.inventory_item_id)]
                        /\ UNCHANGED call
    /\ UNCHANGED <<inventory_items, inventory_transactions, recipes, recipe_ingredients,
                   production_plans, production_plan_items, grocery_lists>>

\* main.py:1093-1095: read the inventory item, compute
receive_read(w) ==
    /\ procs[w].pc = "receive_read"
    /\ IF procs[w].inv_id \notin ItemIds
       THEN /\ call' = Call("update_grocery_item", procs[w].id, 0, 500, 0, NULL, <<>>)
            /\ procs' = [procs EXCEPT ![w] = Idle]
       ELSE LET prev_q == inventory_items[procs[w].inv_id].current_quantity
            IN  /\ procs' = [procs EXCEPT ![w].pc = "receive_update",
                                          ![w].prev_q = prev_q,
                                          ![w].new_q = receive_new_q(prev_q,
                                                                     procs[w].change)]
                /\ UNCHANGED call
    /\ UNCHANGED tables

\* the worker dies while its handler runs (the server is killed): what the
\* handler has committed stays, the rest of it never runs
crash(w) ==
    /\ procs[w].pc \notin {"idle", "crashed"}
    /\ procs' = [procs EXCEPT ![w].pc = "crashed"]
    /\ UNCHANGED <<tables, call>>

\* a worker inside send_shortages: the plan it pushes, the shortages it
\* computed and the list id it found or created (NULL: none yet)
Pusher(pc, plan_id, shortages, gl_id) ==
    [pc |-> pc, id |-> plan_id, shortages |-> shortages, gl_id |-> gl_id]

\* grocery list items that pushes in flight are still to insert
PushesInFlight ==
    LET pushing == {w \in Workers : procs[w].pc \in {"push_find", "push_create",
                                                     "push_insert"}}
        RECURSIVE total(_)
        total(S) == IF S = {} THEN 0
                    ELSE LET w == CHOOSE x \in S : TRUE
                         IN  Len(procs[w].shortages) + total(S \ {w})
    IN  total(pushing)

\* send_shortages, main.py:984-990: read the plan, compute its shortages
push_read(w, plan_id) ==
    /\ procs[w].pc = "idle"
    /\ IF plan_id \notin 1 .. Len(production_plans)
       THEN /\ call' = Call("send_shortages", plan_id, 0, 404, 0, NULL, <<>>)
            /\ UNCHANGED procs
       ELSE LET shortages == shortages_of(inventory_items, plan_id)
            IN  IF shortages = <<>>
                THEN /\ call' = Call("send_shortages", plan_id, 0, 200, 0, NULL, <<>>)
                     /\ UNCHANGED procs
                ELSE /\ Len(grocery_list_items) + PushesInFlight + Len(shortages)
                            <= MaxShortageItems
                     /\ procs' = [procs EXCEPT ![w] =
                            Pusher("push_find", plan_id, shortages, NULL)]
                     /\ UNCHANGED call
    /\ UNCHANGED tables

\* main.py:992: look for an open list of the plan's date
push_find(w) ==
    /\ procs[w].pc = "push_find"
    /\ LET active == active_list(grocery_lists,
                                 production_plans[procs[w].id].plan_date)
       IN  procs' = [procs EXCEPT ![w].gl_id = active,
                                  ![w].pc = IF active # NULL THEN "push_insert"
                                            ELSE "push_create"]
    /\ UNCHANGED <<tables, call>>

\* main.py:996-999: no list was found, INSERT one, committed by itself
push_create(w) ==
    /\ procs[w].pc = "push_create"
    /\ grocery_lists' =
           Append(grocery_lists, GroceryList(production_plans[procs[w].id].plan_date))
    /\ procs' = [procs EXCEPT ![w].gl_id = Len(grocery_lists) + 1,
                              ![w].pc = "push_insert"]
    /\ UNCHANGED <<inventory_items, inventory_transactions, recipes, recipe_ingredients,
                   production_plans, production_plan_items, grocery_list_items, call>>

\* main.py:1001-1025: INSERT the lines in one transaction, and the response
push_insert(w) ==
    /\ procs[w].pc = "push_insert"
    /\ grocery_list_items' =
           insert_grocery_rows(grocery_list_items,
                               shortage_rows(procs[w].gl_id, procs[w].shortages))
    /\ call' = Call("send_shortages", procs[w].id, 0, 200, Len(procs[w].shortages),
                    procs[w].gl_id, <<>>)
    /\ procs' = [procs EXCEPT ![w] = Idle]
    /\ UNCHANGED <<inventory_items, inventory_transactions, recipes, recipe_ingredients,
                   production_plans, production_plan_items, grocery_lists>>

\* a worker inside calc_plan_requirements: the plan, the plan items and the
\* scaled ingredient lines still to process, agg, and the inventory reads
\* made so far (item id and the quantity read), in order
Aggregator(pc, plan_id, pitems, lines, agg, reads) ==
    [pc |-> pc, id |-> plan_id, pitems |-> pitems, lines |-> lines, agg |-> agg,
     reads |-> reads]

PassPcs == {"pass_recipe", "pass_line"}

\* aggregation passes are reads and do not affect each other: one runs at a
\* time, beside the requests that write
NoPass == \A w \in Workers : procs[w].pc \notin PassPcs

\* the plan items query of main.py:88-97, which also reads each recipe's
\* yield_amount
RECURSIVE with_yield(_)
with_yield(pitems) ==
    IF pitems = <<>> THEN <<>>
    ELSE << [recipe_id |-> Head(pitems).recipe_id,
             target_yield_amount |-> Head(pitems).target_yield_amount,
             yield_amount |-> recipe_by_id(Head(pitems).recipe_id).yield_amount] >>
         \o with_yield(Tail(pitems))

\* calc_plan_requirements, main.py:88-99: read the plan items
pass_begin(w, plan_id) ==
    /\ procs[w].pc = "idle"
    /\ NoPass
    /\ plan_id \in 1 .. Len(production_plans)
    /\ procs' = [procs EXCEPT ![w] =
           Aggregator("pass_recipe", plan_id, with_yield(plan_items_of(plan_id)),
                      <<>>, <<>>, <<>>)]
    /\ UNCHANGED <<tables, call>>

\* main.py:100-102: the next plan item; read its recipe's ingredient lines
pass_recipe(w) ==
    /\ procs[w].pc = "pass_recipe"
    /\ procs[w].pitems # <<>>
    /\ LET p     == Head(procs[w].pitems)
           lines == lines_of_item(get_recipe_ingredients(inventory_items, p.recipe_id),
                                  p.target_yield_amount, p.yield_amount)
       IN  procs' = [procs EXCEPT ![w].pitems = Tail(procs[w].pitems),
                                  ![w].lines = lines,
                                  ![w].pc = IF lines = <<>> THEN "pass_recipe"
                                            ELSE "pass_line"]
    /\ UNCHANGED <<tables, call>>

\* main.py:103-118: the next ingredient line; the inventory item is read
\* when agg does not hold it yet
pass_line(w) ==
    /\ procs[w].pc = "pass_line"
    /\ LET line == Head(procs[w].lines)
           rest == Tail(procs[w].lines)
           read == agg_index(procs[w].agg, line.item_id) = 0
       IN  procs' = [procs EXCEPT
               ![w].agg = agg_add(procs[w].agg, line, inventory_items),
               ![w].reads = IF read
                            THEN Append(procs[w].reads,
                                        [inventory_item_id |-> line.item_id,
                                         current_quantity |->
                                             inventory_items[line.item_id].current_quantity])
                            ELSE procs[w].reads,
               ![w].lines = rest,
               ![w].pc = IF rest = <<>> THEN "pass_recipe" ELSE "pass_line"]
    /\ UNCHANGED <<tables, call>>

\* main.py:120-132: round, sort and return
pass_return(w) ==
    /\ procs[w].pc = "pass_recipe"
    /\ procs[w].pitems = <<>>
    /\ call' = CallRows("calc_plan_requirements", procs[w].id, 0, 200,
                        sort_by_name(map_requirement_lines(procs[w].agg)))
    /\ procs' = [procs EXCEPT ![w] = Idle]
    /\ UNCHANGED tables

-----------------------------------------------------------------------------
(* The database the application starts from. *)

\* A database holding part of what seed_data() inserts on the first start
\* (db.py:324-381): two of its inventory items, and its first recipe with
\* the two ingredient lines that use them (yield 4 L; 6 kg of tomato and
\* 0.2 kg of garlic).  Costs are in cents.
SeedItems ==
    << InventoryItem("Tomato", "kg", 12 * Unit, 320, "Local Farm"),
       InventoryItem("Garlic", "kg", 2 * Unit, 400, "Local Farm") >>

Init ==
    /\ inventory_items = SeedItems
    /\ inventory_transactions = <<>>
    /\ recipes = << Recipe(1, "Tomato Basil Sauce", 4) >>
    /\ recipe_ingredients =
           << RecipeIngredient(1, 1, 6 * Unit), RecipeIngredient(1, 2, Unit \div 5) >>
    /\ production_plans = <<>>
    /\ production_plan_items = <<>>
    /\ grocery_lists = <<>>
    /\ grocery_list_items = <<>>
    /\ call = NoCall
    /\ procs = [p \in Workers |-> Idle]

-----------------------------------------------------------------------------
(* Requests served one at a time: the ledger. *)

\* change_quantity of an adjustment: -5, -0.0004
AdjustChanges == {-5 * Unit, -2}

\* counted or imported quantities: -1, 0.0014
AbsoluteQtys == {-Unit, 7}

\* payloads of one row and of two rows
Payloads(S) == {<<r>> : r \in S} \cup {<<r1, r2>> : r1 \in S, r2 \in S}

CountRows == [id : {2, Len(inventory_items) + 1}, current_quantity : AbsoluteQtys]

CsvRow(name, qty) == [name |-> name, base_unit |-> "kg", current_quantity |-> qty,
                      cost_per_unit |-> 0, supplier |-> None]

\* a line without a name, two lines for a seeded item, one for a new item
CsvRows == {CsvRow("", 7), CsvRow("Tomato", -Unit), CsvRow("Tomato", 7),
            CsvRow("Basil", 7)}

NextLedger ==
    \/ \E name \in {"Tomato", "Basil"} :
           create_inventory(name, "kg", 0, 0, None)
    \/ \E id \in {1, Len(inventory_items) + 1} :
           update_inventory(id, "Roma", "kg", 320, "Local Farm")
    \/ \E id \in 1 .. Len(inventory_items) + 1, change \in AdjustChanges :
           adjust_inventory(id, change, "adjustment")
    \/ \E rows \in Payloads(CountRows) : inventory_count(rows)
    \/ \E rows \in Payloads(CsvRows) : import_inventory_csv(rows)

Spec == Init /\ [][NextLedger]_vars

-----------------------------------------------------------------------------
(* Requests served one at a time: the writes of absolute quantities. *)

NextCounts ==
    \/ \E rows \in Payloads(CountRows) : inventory_count(rows)
    \/ \E rows \in Payloads(CsvRows) : import_inventory_csv(rows)
    \/ adjust_inventory(2, -2, "adjustment")

SpecCounts == Init /\ [][NextCounts]_vars

-----------------------------------------------------------------------------
(* Requests served one at a time: receiving, beside the other ledger writes. *)

\* payload status of PUT /api/grocery-items/{id}; None: the payload has none
Statuses == {None, "ordered", "received"}

\* payloads of POST /api/grocery-lists/{id}/items: a free-text line, a line
\* that takes its name and unit from inventory item 1, and two lines linked
\* to no inventory item, with and without a name
GroceryPayloads ==
    { [inventory_item_id |-> NULL, name |-> "Salt", unit |-> "kg"],
      [inventory_item_id |-> 1, name |-> None, unit |-> None],
      [inventory_item_id |-> Len(inventory_items) + 1, name |-> "Salt", unit |-> "kg"],
      [inventory_item_id |-> Len(inventory_items) + 1, name |-> None, unit |-> None] }

NextReceiving ==
    \/ create_grocery_list("D1")
    \/ \E list_id \in 1 .. Len(grocery_lists) + 1, p \in GroceryPayloads :
           add_grocery_item(list_id, p.inventory_item_id, p.name, p.unit, Unit)
    \/ \E id \in 1 .. Len(grocery_list_items) + 1, status \in Statuses :
           update_grocery_item(id, status)
    \/ update_inventory(1, "Roma", "kg", 320, "Local Farm")
    \/ adjust_inventory(1, -2, "adjustment")
    \/ inventory_count(<< [id |-> 1, current_quantity |-> 7] >>)
    \/ import_inventory_csv(<< CsvRow("Tomato", -Unit) >>)

SpecReceiving == Init /\ [][NextReceiving]_vars

-----------------------------------------------------------------------------
(* Requests served one at a time: planning and procurement. *)

Dates == {"D1", "D2"}

NextProcurement ==
    \/ \E d \in Dates : create_production_plan(d)
    \/ \E plan_id \in {1, Len(production_plans) + 1}, recipe_id \in {1, 2},
          target \in {0, 2, 10} :
           add_production_item(plan_id, recipe_id, target)
    \/ \E plan_id \in 1 .. Len(production_plans) + 1 : send_shortages(plan_id)
    \/ \E d \in Dates : create_grocery_list(d)
    \/ inventory_count(<< [id |-> 2, current_quantity |-> 7] >>)

SpecProcurement == Init /\ [][NextProcurement]_vars

-----------------------------------------------------------------------------
(* Requests served concurrently: ledger writes, statement by statement. *)

NextStatements ==
    \/ \E w \in Workers, id \in {1, Len(inventory_items) + 1},
          change \in AdjustChanges :
           adjust_read(w, id, change)
    \/ \E w \in Workers : ledger_update(w)
    \/ \E w \in Workers : ledger_insert(w)
    \/ \E w \in Workers, id \in 1 .. Len(grocery_list_items) + 1 : receive_status(w, id)
    \/ \E w \in Workers : receive_read(w)
    \/ \E w \in Workers : crash(w)
    \/ create_grocery_list("D1")
    \/ \E item_id \in {NULL, 1} :
           add_grocery_item(1, item_id, "Tomatoes", "kg", Unit)

SpecStatements == Init /\ [][NextStatements]_vars

-----------------------------------------------------------------------------
(* Requests served concurrently: adjustments and receipts of one item,     *)
(* statement by statement, that all run to their end; every change is a    *)
(* whole number of thousandths.                                            *)

\* Pushed lines next to lines typed in by hand, on lists of two dates
NextShortageLines ==
    \/ \E d \in Dates : create_production_plan(d)
    \/ \E plan_id \in 1 .. Len(production_plans) : add_production_item(plan_id, 1, 10)
    \/ \E plan_id \in 1 .. Len(production_plans) : send_shortages(plan_id)
    \/ create_grocery_list("D1")
    \/ add_grocery_item(1, NULL, "Salt", "kg", 0)
    \/ update_grocery_item(Len(grocery_list_items), "ordered")

SpecShortageLines == Init /\ [][NextShortageLines]_vars

\* Restocking a plan: its shortages are pushed and the pushed lines are received
NextRestock ==
    \/ create_production_plan("D1")
    \/ \E target \in {10, 50} : add_production_item(1, 1, target)
    \/ import_inventory_csv(<< CsvRow("Tomato", 7) >>)
    \/ send_shortages(1)
    \/ \E id \in 1 .. Len(grocery_list_items) : update_grocery_item(id, "received")
    \/ get_production_plan(1)

SpecRestock == Init /\ [][NextRestock]_vars

NextBalance ==
    \/ \E w \in Workers, change \in {-5 * Unit, 3 * Unit} : adjust_read(w, 1, change)
    \/ \E w \in Workers : ledger_update(w)
    \/ \E w \in Workers : ledger_insert(w)
    \/ \E w \in Workers, id \in 1 .. Len(grocery_list_items) : receive_status(w, id)
    \/ \E w \in Workers : receive_read(w)
    \/ create_grocery_list("D1")
    \/ add_grocery_item(1, 1, "Tomatoes", "kg", Unit)

SpecBalance == Init /\ [][NextBalance]_vars

-----------------------------------------------------------------------------
(* Requests served one at a time: the requirements of a plan. *)

\* a recipe of yield 3 that names garlic in two ingredient lines
GarlicConfit ==
    << [inventory_item_id |-> 2, quantity |-> Unit],
       [inventory_item_id |-> 2, quantity |-> Unit \div 4] >>

NextRequirements ==
    \/ create_recipe("Garlic Confit", 3, GarlicConfit)
    \/ create_production_plan("D1")
    \/ \E recipe_id \in {1, 2}, target \in {1, 10} :
           add_production_item(1, recipe_id, target)
    \/ inventory_count(<< [id |-> 2, current_quantity |-> 7] >>)
    \/ update_inventory(1, "Basil", "kg", 320, "Local Farm")
    \/ \E plan_id \in 1 .. Len(production_plans) + 1 : get_production_plan(plan_id)

SpecRequirements == Init /\ [][NextRequirements]_vars

-----------------------------------------------------------------------------
(* Requests served one at a time: recipes. *)

\* ingredient payloads: none, one line of 0.333, and a line for no
\* inventory item
IngredientPayloads ==
    { <<>>,
      << [inventory_item_id |-> 1, quantity |-> 333 * TicksPerMilli] >>,
      << [inventory_item_id |-> 2, quantity |-> Unit],
         [inventory_item_id |-> Len(inventory_items) + 1, quantity |-> Unit] >> }

CsvRecipeRow(recipe_name, yield_amount, ingredient_name) ==
    [recipe_name |-> recipe_name, yield_amount |-> yield_amount,
     ingredient_name |-> ingredient_name, ingredient_quantity |-> Unit]

\* CSV payloads: an existing recipe with yield 0, a new recipe with a
\* negative yield on its first row, a new recipe with an empty yield cell,
\* and a row that names no inventory item
CsvRecipePayloads ==
    { << CsvRecipeRow("Tomato Basil Sauce", <<0>>, "Tomato") >>,
      << CsvRecipeRow("Stock", <<-2>>, "Garlic"),
         CsvRecipeRow("Stock", <<5>>, "Tomato") >>,
      << CsvRecipeRow("Stock", <<>>, ""), CsvRecipeRow("", <<3>>, "Garlic") >>,
      << CsvRecipeRow("Stock", <<3>>, "Saffron") >> }

NextRecipes ==
    \/ \E name \in {"", "Pesto"}, yield_amount \in {0, 2}, ings \in IngredientPayloads :
           create_recipe(name, yield_amount, ings)
    \/ \E recipe_id \in 1 .. Len(recipes) + 1, yield_amount \in {-1, 3},
          ings \in IngredientPayloads :
           update_recipe(recipe_id, "Pesto", yield_amount, ings)
    \/ \E recipe_id \in 1 .. Len(recipes) + 1 : duplicate_recipe(recipe_id)
    \/ \E rows \in CsvRecipePayloads : import_recipes_csv(rows)
    \/ \E recipe_id \in 1 .. Len(recipes) + 1, target_yield \in {-4, 0, 10} :
           scale_recipe(recipe_id, target_yield)
    \/ \E recipe_id \in 1 .. Len(recipes) + 1 : get_recipe(recipe_id)
    \/ update_inventory(1, "Tomato", "kg", 350, "Local Farm")

SpecRecipes == Init /\ [][NextRecipes]_vars

-----------------------------------------------------------------------------
(* Requests served one at a time: reads and adjustments beside a plan and  *)
(* the grocery list it was pushed to, with ids that exist and ids that do  *)
(* not.                                                                    *)

NextFrames ==
    \/ create_production_plan("D1")
    \/ add_production_item(1, 1, 10)
    \/ \E plan_id \in 1 .. Len(production_plans) + 1 : send_shortages(plan_id)
    \/ \E plan_id \in 1 .. Len(production_plans) + 1 : get_production_plan(plan_id)
    \/ \E recipe_id \in 1 .. Len(recipes) + 1 : get_recipe(recipe_id)
    \/ \E recipe_id \in 1 .. Len(recipes) + 1 : scale_recipe(recipe_id, 10)
    \/ \E id \in {1, Len(inventory_items) + 1} :
           adjust_inventory(id, -5 * Unit, "adjustment")
    \/ \E id \in {1, Len(grocery_list_items) + 1} : update_grocery_item(id, "ordered")

SpecFrames == Init /\ [][NextFrames]_vars

-----------------------------------------------------------------------------
(* Requests served one at a time: a pushed grocery list and changes of    *)
(* the inventory items its lines were copied from.                         *)

NextSnapshots ==
    \/ create_production_plan("D1")
    \/ \E target \in {2, 10} : add_production_item(1, 1, target)
    \/ send_shortages(1)
    \/ update_inventory(1, "Roma", "lb", 350, "Metro")
    \/ import_inventory_csv(<< CsvRow("Tomato", 7) >>)
    \/ \E list_id \in 1 .. Len(grocery_lists) + 1 : get_grocery_list(list_id)

SpecSnapshots == Init /\ [][NextSnapshots]_vars

-----------------------------------------------------------------------------
(* Requests served one at a time: the statuses of the items of a pushed    *)
(* grocery list.                                                           *)

GroceryStatuses == {"needed", "ordered", "received"}

NextStatuses ==
    \/ create_production_plan("D1")
    \/ add_production_item(1, 1, 10)
    \/ send_shortages(1)
    \/ \E id \in 1 .. Len(grocery_list_items) + 1, status \in GroceryStatuses :
           update_grocery_item(id, status)

SpecStatuses == Init /\ [][NextStatuses]_vars

-----------------------------------------------------------------------------
(* Requests served one at a time: deleting a recipe that plans use.  No    *)
(* recipe is created here, so no id is given out again.                    *)

NextDeletion ==
    \/ \E d \in Dates : create_production_plan(d)
    \/ \E plan_id \in 1 .. Len(production_plans), target \in {2, 10} :
           add_production_item(plan_id, 1, target)
    \/ \E recipe_id \in {1, 2}, foreign_keys \in BOOLEAN :
           delete_recipe(recipe_id, foreign_keys)
    \/ \E recipe_id \in {1, 2} : get_recipe(recipe_id)
    \/ \E plan_id \in 1 .. Len(production_plans) + 1 : get_production_plan(plan_id)
    \/ inventory_count(<< [id |-> 1, current_quantity |-> 7] >>)

SpecDeletion == Init /\ [][NextDeletion]_vars

\* Plan items of recipes that were typed in or imported from a CSV file
NextPlanItems ==
    \/ create_production_plan("D1")
    \/ \E plan_id \in 1 .. Len(production_plans) + 1, recipe_id \in {1, 2},
          target \in {-2, 0, 2, 10} :
           add_production_item(plan_id, recipe_id, target)
    \/ create_recipe("Garlic Confit", 3, GarlicConfit)
    \/ import_recipes_csv(<< CsvRecipeRow("Stock", <<-2>>, "Garlic"),
                             CsvRecipeRow("Stock", <<5>>, "Tomato") >>)
    \/ \E plan_id \in 1 .. Len(production_plans) + 1 : get_production_plan(plan_id)

SpecPlanItems == Init /\ [][NextPlanItems]_vars

-----------------------------------------------------------------------------
(* Requests served concurrently: pushes of shortages, statement by         *)
(* statement, from a database without grocery lists; no other request      *)
(* creates a list.                                                         *)

NextPushes ==
    \/ create_production_plan("D1")
    \/ \E target \in {2, 10} : add_production_item(1, 1, target)
    \/ \E w \in Workers, plan_id \in 1 .. Len(production_plans) + 1 :
           push_read(w, plan_id)
    \/ \E w \in Workers : push_find(w)
    \/ \E w \in Workers : push_create(w)
    \/ \E w \in Workers : push_insert(w)
    \/ inventory_count(<< [id |-> 1, current_quantity |-> 7] >>)

SpecPushes == Init /\ [][NextPushes]_vars

-----------------------------------------------------------------------------
(* Requests served concurrently: an aggregation pass, query by query,      *)
(* beside requests that change the inventory.                              *)

NextAggregation ==
    \/ create_production_plan("D1")
    \/ add_production_item(1, 1, 10)
    \/ \E w \in Workers : pass_begin(w, 1)
    \/ \E w \in Workers : pass_recipe(w)
    \/ \E w \in Workers : pass_line(w)
    \/ \E w \in Workers : pass_return(w)
    \/ adjust_inventory(1, -5 * Unit, "adjustment")
    \/ inventory_count(<< [id |-> 2, current_quantity |-> 7] >>)

SpecAggregation == Init /\ [][NextAggregation]_vars

-----------------------------------------------------------------------------
(* Properties. *)

Last(q) == q[Len(q)]

\* the rows a step appends to a table
Added(old, new) == SubSeq(new, Len(old) + 1, Len(new))

LedgerOps == {"adjust_inventory", "inventory_count", "import_inventory_csv",
              "update_grocery_item"}

\* C1: in every reachable state every inventory item's current_quantity
\* is >= 0.
C1_StockNeverNegative ==
    \A i \in ItemIds : inventory_items[i].current_quantity >= 0

\* C2 as stated: an adjustment of an existing item with previous + delta < 0
\* is rejected, the quantity is unchanged and no ledger row is added.
C2_RejectsBelowZero ==
    [][(/\ call'.op = "adjust_inventory"
        /\ call'.id \in ItemIds
        /\ inventory_items[call'.id].current_quantity + call'.qty < 0)
       => (/\ call'.code = 400
           /\ inventory_items' = inventory_items
           /\ inventory_transactions' = inventory_transactions)]_vars

\* C2, amended: an adjustment of an existing item whose resulting quantity
\* round(previous + delta, 3) is below zero is rejected with an error, the
\* quantity is unchanged and no ledger row is added.
C2_RejectsRoundedBelowZero ==
    [][(/\ call'.op = "adjust_inventory"
        /\ call'.id \in ItemIds
        /\ round3(inventory_items[call'.id].current_quantity + call'.qty) < 0)
       => (/\ call'.code = 400
           /\ inventory_items' = inventory_items
           /\ inventory_transactions' = inventory_transactions)]_vars

\* a rejected adjustment of an existing item that would have gone below zero
C2_Witness ==
    /\ call.op = "adjust_inventory"
    /\ call.code = 400
    /\ call.id \in ItemIds
    /\ round3(inventory_items[call.id].current_quantity + call.qty) < 0

\* what a successful adjustment leaves, given the quantity it must store
AdjustLeaves(new_q) ==
    LET i      == call'.id
        prev_q == inventory_items[i].current_quantity
        added  == Added(inventory_transactions, inventory_transactions')
    IN  /\ inventory_items'[i].current_quantity = new_q
        /\ Len(inventory_transactions') = Len(inventory_transactions) + 1
        /\ SubSeq(inventory_transactions', 1, Len(inventory_transactions))
               = inventory_transactions
        /\ added[1].inventory_item_id = i
        /\ added[1].previous_quantity = prev_q
        /\ added[1].change_quantity = call'.qty
        /\ added[1].new_quantity = new_q

\* C3 as stated: after a successful adjustment the stored quantity is
\* previous + delta, and exactly one new row holds previous, delta and
\* new = previous + delta.
C3_StoresExactSum ==
    [][(call'.op = "adjust_inventory" /\ call'.code = 200)
       => AdjustLeaves(inventory_items[call'.id].current_quantity + call'.qty)]_vars

\* C3, amended: after a successful adjustment the stored quantity is
\* round(previous + delta, 3), and exactly one new row exists for the item,
\* holding the previous quantity, the delta and that rounded new quantity.
C3_StoresRoundedSum ==
    [][(call'.op = "adjust_inventory" /\ call'.code = 200)
       => AdjustLeaves(round3(inventory_items[call'.id].current_quantity
                              + call'.qty))]_vars

\* a successful adjustment whose row shows the rounding
C3_Witness ==
    /\ call.op = "adjust_inventory"
    /\ call.code = 200
    /\ inventory_transactions # <<>>
    /\ Last(inventory_transactions).inventory_item_id = call.id
    /\ Last(inventory_transactions).new_quantity
           # Last(inventory_transactions).previous_quantity
             + Last(inventory_transactions).change_quantity

\* C4: at no moment does an inventory item carry a quantity that the
\* ledger does not account for: the quantity is the new_quantity of the
\* item's latest row, or the seeded quantity when the item has no row.
C4_QuantityAndRowTogether ==
    \A i \in 1 .. Len(SeedItems) :
        inventory_items[i].current_quantity =
            IF RowsOf(inventory_transactions, i) = <<>>
            THEN SeedItems[i].current_quantity
            ELSE Last(RowsOf(inventory_transactions, i)).new_quantity

C6_LedgerAppendOnly ==
    [][/\ Len(inventory_transactions') >= Len(inventory_transactions)
       /\ SubSeq(inventory_transactions', 1, Len(inventory_transactions))
              = inventory_transactions]_vars

\* an item with ledger rows has just been renamed
C6_Witness ==
    /\ call.op = "update_inventory"
    /\ call.code = 200
    /\ inventory_items[call.id].name # SeedItems[call.id].name
    /\ Len(RowsOf(inventory_transactions, call.id)) >= 2

\* a step that leaves grocery item call'.id, linked to an existing inventory
\* item, with status received
ReceivesLinked ==
    /\ call'.op = "update_grocery_item"
    /\ call'.id \in 1 .. Len(grocery_list_items)
    /\ grocery_list_items'[call'.id].status = "received"
    /\ grocery_list_items[call'.id].inventory_item_id \in ItemIds

\* what a receipt leaves, given the quantity it must store
ReceiptLeaves(new_q) ==
    LET item  == grocery_list_items[call'.id]
        i     == item.inventory_item_id
    IN  /\ call'.code = 200
        /\ inventory_items'[i].current_quantity = new_q
        /\ inventory_transactions' =
               Append(inventory_transactions,
                      [inventory_item_id |-> i, change_quantity |-> item.quantity,
                       previous_quantity |-> inventory_items[i].current_quantity,
                       new_quantity |-> new_q, reason |-> "received",
                       source |-> "grocery", grocery_item |-> call'.id])

\* C7 as stated: receiving a linked grocery item increases the inventory
\* item's quantity by exactly the grocery item's quantity and appends exactly
\* one row (received, grocery) whose change is that quantity.
C7_ReceiptAddsExactly ==
    [][ReceivesLinked
       => LET item == grocery_list_items[call'.id]
          IN  ReceiptLeaves(inventory_items[item.inventory_item_id].current_quantity
                            + item.quantity)]_vars

\* C7, amended: receiving a linked grocery item sets the inventory item's
\* quantity to round(previous + grocery quantity, 3) and appends exactly one
\* row (received, grocery) whose change is the grocery item's quantity.
C7_ReceiptAddsRounded ==
    [][ReceivesLinked
       => LET item == grocery_list_items[call'.id]
          IN  ReceiptLeaves(round3(
                  inventory_items[item.inventory_item_id].current_quantity
                  + item.quantity))]_vars

\* a receipt into an item whose quantity had more than three decimals
C7_Witness ==
    /\ call.op = "update_grocery_item"
    /\ call.code = 200
    /\ call.writes # <<>>
    /\ Last(inventory_transactions).reason = "received"
    /\ Last(inventory_transactions).new_quantity
           # Last(inventory_transactions).previous_quantity
             + Last(inventory_transactions).change_quantity

\* C8: setting a grocery item that has no linked inventory item to received
\* fails with an error; no quantity changes and no ledger row is added.
C8_UnlinkedReceiptFails ==
    [][(/\ call'.op = "update_grocery_item"
        /\ call'.id \in 1 .. Len(grocery_list_items)
        /\ grocery_list_items'[call'.id].status = "received"
        /\ grocery_list_items[call'.id].inventory_item_id = NULL)
       => (/\ call'.code = 400
           /\ inventory_items' = inventory_items
           /\ inventory_transactions' = inventory_transactions)]_vars

\* a receipt of a free-text line was refused
C8_Witness ==
    /\ call.op = "update_grocery_item"
    /\ call.code = 400
    /\ call.id \in 1 .. Len(grocery_list_items)
    /\ grocery_list_items[call.id].inventory_item_id = NULL

\* the plan has a requirement line with shortage > 0
HasShortage(plan_id) ==
    LET req == calc_plan_requirements(inventory_items, plan_id)
    IN  \E k \in 1 .. Len(req) : req[k].shortage_quantity > 0

\* C9: send_shortages for a plan with no requirement line with shortage > 0
\* returns added = 0 and grocery_list_id = null and creates no grocery list
\* and no grocery list item.
C9_NoShortageNoOp ==
    [][(/\ call'.op = "send_shortages"
        /\ call'.id \in 1 .. Len(production_plans)
        /\ ~ HasShortage(call'.id))
       => (/\ call'.code = 200
           /\ call'.ret = 0
           /\ call'.ret_id = NULL
           /\ grocery_lists' = grocery_lists
           /\ grocery_list_items' = grocery_list_items)]_vars

\* a push for a plan that has requirement lines, none of them short
C9_Witness ==
    /\ call.op = "send_shortages"
    /\ call.code = 200
    /\ call.ret = 0
    /\ call.id \in 1 .. Len(production_plans)
    /\ calc_plan_requirements(inventory_items, call.id) # <<>>

\* the open grocery lists of a date
OpenLists(list_date) ==
    {k \in 1 .. Len(grocery_lists) :
        grocery_lists[k].list_date = list_date /\ grocery_lists[k].status = "open"}

\* C10: send_shortages for a plan with a shortage adds its lines to an
\* existing open list of the plan's date and creates no list when there is
\* such a list; otherwise it creates exactly one open list of that date and
\* adds the lines to it.  No other list receives a line.
C10_ReuseOrCreateList ==
    [][(/\ call'.op = "send_shortages"
        /\ call'.id \in 1 .. Len(production_plans)
        /\ HasShortage(call'.id))
       => LET d     == production_plans[call'.id].plan_date
              added == Added(grocery_list_items, grocery_list_items')
          IN  /\ added # <<>>
              /\ SubSeq(grocery_list_items', 1, Len(grocery_list_items))
                     = grocery_list_items
              /\ IF OpenLists(d) # {}
                 THEN /\ grocery_lists' = grocery_lists
                      /\ \A k \in 1 .. Len(added) :
                             added[k].grocery_list_id \in OpenLists(d)
                 ELSE /\ grocery_lists' =
                             Append(grocery_lists,
                                    [list_date |-> d, status |-> "open"])
                      /\ \A k \in 1 .. Len(added) :
                             added[k].grocery_list_id = Len(grocery_lists')]_vars

\* a push that reused the list of the plan's date while a list of another
\* date existed
C10_Witness ==
    /\ call.op = "send_shortages"
    /\ call.ret > 0
    /\ call.ret_id \in 1 .. Len(grocery_lists)
    /\ grocery_lists[call.ret_id].list_date = production_plans[call.id].plan_date
    /\ \E k \in 1 .. Len(grocery_lists) :
           grocery_lists[k].list_date # production_plans[call.id].plan_date
    /\ \E j \in 1 .. Len(grocery_list_items) :
           /\ grocery_list_items[j].grocery_list_id = call.ret_id
           /\ j <= Len(grocery_list_items) - call.ret

\* C11: after any number of pushes, also concurrent ones, of plans of one
\* date into a database that had no grocery list, at most one open grocery
\* list exists for each date.
C11_OneOpenListPerDate ==
    \A d \in Dates : Cardinality(OpenLists(d)) <= 1

\* the requirement lines of the plan with shortage > 0, in output order
ShortLines(plan_id) ==
    SelectSeq(calc_plan_requirements(inventory_items, plan_id),
              LAMBDA r : r.shortage_quantity > 0)

\* C12: a push that finds shortages appends exactly one grocery list item
\* per requirement line with shortage > 0, with that line's shortage as
\* quantity, from_shortage true, status needed, and the line's inventory item
\* id, name, unit and supplier; the returned added count is the number of
\* items appended.
C12_OneItemPerShortageLine ==
    [][(/\ call'.op = "send_shortages"
        /\ call'.id \in 1 .. Len(production_plans)
        /\ HasShortage(call'.id))
       => LET short == ShortLines(call'.id)
              added == Added(grocery_list_items, grocery_list_items')
          IN  /\ Len(added) = Len(short)
              /\ call'.ret = Len(added)
              /\ \A k \in 1 .. Len(added) :
                     /\ added[k].quantity = short[k].shortage_quantity
                     /\ added[k].from_shortage = TRUE
                     /\ added[k].status = "needed"
                     /\ added[k].inventory_item_id = short[k].inventory_item_id
                     /\ added[k].name = short[k].name
                     /\ added[k].unit = short[k].unit
                     /\ added[k].vendor = short[k].supplier]_vars

\* a push that appended two lines, for two different items
C12_Witness ==
    /\ call.op = "send_shortages"
    /\ call.ret = 2
    /\ Len(grocery_list_items) >= 2
    /\ Last(grocery_list_items).from_shortage
    /\ Last(grocery_list_items).inventory_item_id
           # grocery_list_items[Len(grocery_list_items) - 1].inventory_item_id
    /\ Last(grocery_list_items).quantity > 0

\* C13: a push of a plan that directly follows a push of the same plan
\* appends the same lines again to the same open list: it adds as many lines
\* as the first, creates no list, and leaves the lines of the first as they
\* were.
C13_RepeatedPushAppends ==
    [][(/\ call.op = "send_shortages"
        /\ call.code = 200
        /\ call.ret > 0
        /\ call'.op = "send_shortages"
        /\ call'.id = call.id)
       => LET first == SubSeq(grocery_list_items,
                              Len(grocery_list_items) - call.ret + 1,
                              Len(grocery_list_items))
          IN  /\ call'.ret = call.ret
              /\ call'.ret_id = call.ret_id
              /\ grocery_lists' = grocery_lists
              /\ grocery_list_items' = grocery_list_items \o first]_vars

\* the second of two pushes has doubled the lines of the first
C13_Witness ==
    /\ call.op = "send_shortages"
    /\ call.ret > 0
    /\ Len(grocery_list_items) >= 2 * call.ret
    /\ SubSeq(grocery_list_items, Len(grocery_list_items) - call.ret + 1,
              Len(grocery_list_items))
           = SubSeq(grocery_list_items, Len(grocery_list_items) - 2 * call.ret + 1,
                    Len(grocery_list_items) - call.ret)

ReturnedLines ==
    IF call.op = "get_production_plan" /\ call.code = 200 THEN call.rows ELSE <<>>

\* C15 as stated: on every requirement line shortage_quantity is
\* max(required_quantity - available_quantity, 0); it is never negative, and
\* it is 0 exactly when required does not exceed available.
C15_ShortageIsExcess ==
    \A k \in 1 .. Len(ReturnedLines) :
        LET r == ReturnedLines[k]
        IN  /\ r.shortage_quantity = max(r.required_quantity - r.available_quantity, 0)
            /\ r.shortage_quantity >= 0
            /\ r.shortage_quantity = 0 <=> r.required_quantity <= r.available_quantity

\* C15, amended: on every requirement line shortage_quantity is
\* round(max(required_quantity - available_quantity, 0), 3); it is never
\* negative, and it is 0 when required does not exceed available.
C15_ShortageIsRoundedExcess ==
    \A k \in 1 .. Len(ReturnedLines) :
        LET r == ReturnedLines[k]
        IN  /\ r.shortage_quantity =
                   round3(max(r.required_quantity - r.available_quantity, 0))
            /\ r.shortage_quantity >= 0
            /\ r.required_quantity <= r.available_quantity => r.shortage_quantity = 0

\* requirements with a line that is short and a line that is not, the
\* short one against a stock that has more than three decimals
C15_Witness ==
    /\ \E k \in 1 .. Len(ReturnedLines) :
           /\ ReturnedLines[k].shortage_quantity > 0
           /\ ReturnedLines[k].available_quantity % TicksPerMilli # 0
    /\ \E k \in 1 .. Len(ReturnedLines) :
           /\ ReturnedLines[k].shortage_quantity = 0
           /\ ReturnedLines[k].required_quantity < ReturnedLines[k].available_quantity

\* the product of the yields of all recipes: a common denominator
RECURSIVE YieldProduct(_)
YieldProduct(rs) ==
    IF rs = <<>> THEN 1 ELSE Head(rs).yield_amount * YieldProduct(Tail(rs))

\* the pairs (plan item, ingredient line) of the plan that reference the item
Terms(plan_id, item_id) ==
    {t \in (1 .. Len(production_plan_items)) \X (1 .. Len(recipe_ingredients)) :
        /\ production_plan_items[t[1]].production_plan_id = plan_id
        /\ \E k \in 1 .. Len(recipes) :
               recipes[k].id = production_plan_items[t[1]].recipe_id
        /\ recipe_ingredients[t[2]].recipe_id = production_plan_items[t[1]].recipe_id
        /\ recipe_ingredients[t[2]].inventory_item_id = item_id}

\* quantity * target_yield / yield of one pair, times YieldProduct(recipes)
TermTimesProduct(t) ==
    recipe_ingredients[t[2]].quantity * production_plan_items[t[1]].target_yield_amount
    * (YieldProduct(recipes)
       \div recipe_by_id(production_plan_items[t[1]].recipe_id).yield_amount)

RECURSIVE SumTimesProduct(_)
SumTimesProduct(T) ==
    IF T = {} THEN 0
    ELSE LET t == CHOOSE x \in T : TRUE
         IN  TermTimesProduct(t) + SumTimesProduct(T \ {t})

\* the output has exactly one line per inventory item the plan references
OneLinePerItem ==
    call.op = "get_production_plan" /\ call.code = 200
    => /\ \A i \in ItemIds :
              Cardinality({k \in 1 .. Len(call.rows) :
                              call.rows[k].inventory_item_id = i})
                  = IF Terms(call.id, i) = {} THEN 0 ELSE 1
       /\ \A k \in 1 .. Len(call.rows) : call.rows[k].inventory_item_id \in ItemIds

\* C16 as stated: the requirement output has exactly one line per distinct
\* inventory item that an ingredient line of a recipe in the plan references,
\* and the line's required quantity is the sum, over the plan items and the
\* ingredient lines that reference the item, of quantity * target / yield.
C16_RequiredIsSum ==
    /\ OneLinePerItem
    /\ \A k \in 1 .. Len(ReturnedLines) :
           ReturnedLines[k].required_quantity * YieldProduct(recipes)
               = SumTimesProduct(Terms(call.id, ReturnedLines[k].inventory_item_id))

\* C16, amended: the same, the required quantity being that sum rounded to
\* three decimals.
C16_RequiredIsRoundedSum ==
    /\ OneLinePerItem
    /\ \A k \in 1 .. Len(ReturnedLines) :
           ReturnedLines[k].required_quantity
               = round3_fraction(
                     SumTimesProduct(Terms(call.id, ReturnedLines[k].inventory_item_id)),
                     YieldProduct(recipes))

\* requirements with a line for an item that two recipes reference, one of
\* them in two ingredient lines, whose sum has more than three decimals
C16_Witness ==
    \E k \in 1 .. Len(ReturnedLines) :
        LET T == Terms(call.id, ReturnedLines[k].inventory_item_id)
        IN  /\ Cardinality(T) >= 3
            /\ Cardinality({production_plan_items[t[1]].recipe_id : t \in T}) = 2
            /\ ReturnedLines[k].required_quantity * YieldProduct(recipes)
                   # SumTimesProduct(T)

\* C18: the requirement list returned for a plan is ordered by item name
\* ascending: of two adjacent lines the first's name is not greater than the
\* second's.
C18_SortedByName ==
    \A k \in 1 .. Len(ReturnedLines) - 1 :
        NameRank[ReturnedLines[k].name] <= NameRank[ReturnedLines[k + 1].name]

\* requirements whose first line is for an item that the aggregation met
\* after the item of the second line
C18_Witness ==
    /\ Len(ReturnedLines) >= 2
    /\ ReturnedLines[1].inventory_item_id = 2
    /\ ReturnedLines[2].inventory_item_id = 1
    /\ production_plan_items[1].recipe_id = 1

\* the reads of the item among the inventory reads of a pass
ReadsOf(reads, item_id) ==
    {j \in 1 .. Len(reads) : reads[j].inventory_item_id = item_id}

\* C17: in an aggregation pass that runs beside inventory writes, each
\* inventory item's quantity is read exactly once, when the first ingredient
\* line that references it is processed, and the available_quantity the pass
\* reports for the item is the quantity read then, whatever the item's
\* quantity is when the pass ends.
C17_SnapshotAtFirstReference ==
    [][\A w \in Workers :
          /\ (procs[w].pc = "pass_line" /\ procs'[w] # procs[w])
             => LET item == Head(procs[w].lines).item_id
                IN  procs'[w].reads =
                        IF ReadsOf(procs[w].reads, item) # {}
                        THEN procs[w].reads
                        ELSE Append(procs[w].reads,
                                    [inventory_item_id |-> item,
                                     current_quantity |->
                                         inventory_items[item].current_quantity])
          /\ (procs[w].pc = "pass_recipe" /\ procs'[w].pc \in PassPcs)
             => procs'[w].reads = procs[w].reads
          /\ (procs[w].pc = "pass_recipe" /\ procs'[w].pc = "idle")
             => /\ call'.op = "calc_plan_requirements"
                /\ Len(call'.rows) = Len(procs[w].reads)
                /\ \A k \in 1 .. Len(call'.rows) :
                       LET R == ReadsOf(procs[w].reads, call'.rows[k].inventory_item_id)
                       IN  /\ Cardinality(R) = 1
                           /\ \A j \in R :
                                  call'.rows[k].available_quantity
                                      = procs[w].reads[j].current_quantity]_vars

\* a pass over a plan that references each item twice has returned, and an
\* item it reports no longer has the quantity the pass reports
C17_Witness ==
    /\ call.op = "calc_plan_requirements"
    /\ Len(production_plan_items) >= 2
    /\ \E k \in 1 .. Len(call.rows) :
           /\ call.rows[k].required_quantity = 30 * Unit
           /\ call.rows[k].available_quantity
                  # inventory_items[call.rows[k].inventory_item_id].current_quantity

\* C19: scale_recipe on an existing recipe fails with an invalid-argument
\* error and returns no scaled lines whenever the target yield is <= 0 or
\* the recipe's stored yield amount is <= 0.
C19_ScaleRejectsNonPositive ==
    (/\ call.op = "scale_recipe"
     /\ recipe_index(call.id) # 0
     /\ (call.qty <= 0 \/ recipe_by_id(call.id).yield_amount <= 0))
    => (call.code = 400 /\ call.rows = <<>>)

\* C20: in every reachable state every stored recipe has yield_amount > 0.
C20_YieldPositive ==
    \A k \in 1 .. Len(recipes) : recipes[k].yield_amount > 0

\* the ingredient lines of a recipe, in the order of their ids
LinesOfRecipe(rid) == SelectSeq(recipe_ingredients, LAMBDA ri : ri.recipe_id = rid)

Abs(x) == IF x < 0 THEN -x ELSE x

\* a scale request for an existing recipe of native yield > 0 and a target
\* yield > 0 has just been answered
ScaledValid ==
    /\ call.op = "scale_recipe"
    /\ recipe_index(call.id) # 0
    /\ recipe_by_id(call.id).yield_amount > 0
    /\ call.qty > 0

\* C21: for a recipe of native yield Y > 0 and a target yield T > 0,
\* scale_recipe returns one scaled line per ingredient line, and each scaled
\* quantity is a multiple of 0.001 within 0.0005 of Q * T / Y, for the
\* line's quantity Q.
C21_ScaledWithinTolerance ==
    ScaledValid =>
        LET Y == recipe_by_id(call.id).yield_amount
            T == call.qty
            lines == LinesOfRecipe(call.id)
        IN  /\ call.code = 200
            /\ Len(call.rows) = Len(lines)
            /\ \A k \in 1 .. Len(lines) :
                   /\ call.rows[k].ingredient =
                          inventory_items[lines[k].inventory_item_id].name
                   /\ call.rows[k].quantity % TicksPerMilli = 0
                   /\ 2 * Abs(call.rows[k].quantity * Y - lines[k].quantity * T)
                          <= TicksPerMilli * Y

\* Q = 6, Y = 4, T = 10 gives 15; and a quotient that had to be rounded,
\* 1 * 10 / 3 = 3.333
C21_Witness ==
    /\ ScaledValid
    /\ \/ /\ recipe_by_id(call.id).yield_amount = 4
          /\ call.qty = 10
          /\ call.rows # <<>>
          /\ LinesOfRecipe(call.id)[1].quantity = 6 * Unit
          /\ call.rows[1].quantity = 15 * Unit
       \/ /\ recipe_by_id(call.id).yield_amount = 3
          /\ call.rows # <<>>
          /\ LinesOfRecipe(call.id)[1].quantity = Unit
          /\ call.rows[1].quantity = 3333 * TicksPerMilli

\* quantity * cost_per_unit summed over ingredient lines, in ticks times cents
RECURSIVE LineCosts(_)
LineCosts(lines) ==
    IF lines = <<>> THEN 0
    ELSE Head(lines).quantity
             * inventory_items[Head(lines).inventory_item_id].cost_per_unit
         + LineCosts(Tail(lines))

\* the cost of an existing recipe has just been returned
CostReturned ==
    call.op = "get_recipe" /\ call.code = 200

\* C22 as stated: recipe_cost equals the sum over the recipe's ingredient
\* lines of quantity * the item's current cost_per_unit, and is 0 for a
\* recipe without lines.
C22_CostIsSum ==
    CostReturned =>
        /\ call.ret * Unit = LineCosts(LinesOfRecipe(call.id))
        /\ LinesOfRecipe(call.id) = <<>> => call.ret = 0

\* C22, amended: recipe_cost is that sum rounded to 2 decimal places (within
\* half a cent of it), and is 0 for a recipe without lines.
C22_CostIsRoundedSum ==
    CostReturned =>
        /\ 2 * Abs(call.ret * Unit - LineCosts(LinesOfRecipe(call.id))) <= Unit
        /\ LinesOfRecipe(call.id) = <<>> => call.ret = 0

\* a cost of two lines at a changed price, and a cost that had to be rounded
C22_Witness ==
    /\ CostReturned
    /\ \/ /\ Len(LinesOfRecipe(call.id)) = 2
          /\ inventory_items[1].cost_per_unit = 350
          /\ call.ret = 2180
       \/ /\ LineCosts(LinesOfRecipe(call.id)) % Unit # 0
          /\ call.ret > 0

\* the rows of a count payload whose item exists, in payload order
KnownRows(rows) == SelectSeq(rows, LAMBDA r : r.id \in ItemIds)

\* the quantity the last row for this item supplies
LastCounted(rows, i) ==
    LET mine == SelectSeq(rows, LAMBDA r : r.id = i)
    IN  mine[Len(mine)].current_quantity

\* C23: a physical count does not fail on a row whose item id is unknown and
\* changes nothing for it (no item appears, no ledger row is written for
\* it), and every other row of the request, before or after it, is applied:
\* one ledger row per known row, in order, and each counted item left with
\* the quantity its last row supplies.
C23_UnknownRowSkipped ==
    [][call'.op = "inventory_count" =>
       \A rows \in Payloads(CountRows) :
          (Len(rows) = call'.ret /\ inventory_count(rows)) =>
              LET known == KnownRows(rows)
                  added == Added(inventory_transactions, inventory_transactions')
              IN  /\ call'.code = 200
                  /\ Len(inventory_items') = Len(inventory_items)
                  /\ Len(added) = Len(known)
                  /\ \A k \in 1 .. Len(known) :
                         /\ added[k].inventory_item_id = known[k].id
                         /\ added[k].new_quantity = known[k].current_quantity
                  /\ \A i \in ItemIds :
                         inventory_items'[i].current_quantity =
                             IF \E k \in 1 .. Len(known) : known[k].id = i
                             THEN LastCounted(known, i)
                             ELSE inventory_items[i].current_quantity]_vars

\* a count of two rows of which one named no item and the other was applied
C23_Witness ==
    /\ call.op = "inventory_count"
    /\ call.code = 200
    /\ call.ret = 2
    /\ call.writes = << 2 >>
    /\ Last(inventory_transactions).source = "count_page"
    /\ inventory_items[2].current_quantity = Last(inventory_transactions).new_quantity

\* C24: the number a physical count returns is the number of rows whose
\* item was found and written; rows skipped for an unknown item id are not
\* counted.
C24_ReturnsRowsWritten ==
    call.op = "inventory_count" => call.ret = Len(call.writes)

\* the quantity of item i before the k-th ledger row a request added: what
\* the request's latest earlier row for i left, else what the item held
QuantityBefore(added, k, i) ==
    LET earlier == {j \in 1 .. k - 1 : added[j].inventory_item_id = i}
    IN  IF earlier = {}
        THEN inventory_items[i].current_quantity
        ELSE added[CHOOSE j \in earlier : \A h \in earlier : h <= j].new_quantity

\* the rows of an inventory CSV that carry a name, in file order
NamedRows(rows) == SelectSeq(rows, LAMBDA r : r.name # "")

\* The ledger rows a request added for the absolute quantities supplied, one
\* per supplied row and in their order, for the items that existed before
\* the request: previous_quantity is the quantity before the row,
\* new_quantity the supplied one, and change_quantity is delta(new - previous).
AbsoluteRows(ids, qtys, reason, source, delta(_)) ==
    LET added == Added(inventory_transactions, inventory_transactions')
    IN  /\ Len(added) = Len(ids)
        /\ \A k \in 1 .. Len(ids) :
               ids[k] \in ItemIds =>
                   LET prev_q == QuantityBefore(added, k, ids[k])
                   IN  added[k] = InventoryTransaction(ids[k], delta(qtys[k] - prev_q),
                                      prev_q, qtys[k], reason, source, NULL)
        /\ \A i \in ItemIds :
               (\E k \in 1 .. Len(ids) : ids[k] = i) =>
                   inventory_items'[i].current_quantity =
                       qtys[CHOOSE k \in 1 .. Len(ids) :
                                ids[k] = i /\ \A h \in k + 1 .. Len(ids) : ids[h] # i]

AbsoluteWrites(delta(_)) ==
    /\ call'.op = "inventory_count" =>
       \A rows \in Payloads(CountRows) :
           (Len(rows) = call'.ret /\ inventory_count(rows)) =>
               LET known == KnownRows(rows)
               IN  AbsoluteRows([k \in 1 .. Len(known) |-> known[k].id],
                                [k \in 1 .. Len(known) |-> known[k].current_quantity],
                                "counted", "count_page", delta)
    /\ call'.op = "import_inventory_csv" =>
       \A rows \in Payloads(CsvRows) :
           (Len(NamedRows(rows)) = call'.ret /\ import_inventory_csv(rows)) =>
               LET named == NamedRows(rows)
               IN  AbsoluteRows([k \in 1 .. Len(named) |->
                                    item_id_by_name(inventory_items', named[k].name)],
                                [k \in 1 .. Len(named) |-> named[k].current_quantity],
                                "import_csv", "inventory_import", delta)

Exactly(x) == x

\* C25 as stated: for a physical count row and for a CSV import row naming
\* an existing item, the item's current_quantity becomes the supplied
\* quantity and the appended ledger row has previous_quantity = the quantity
\* before, new_quantity = the supplied quantity and change_quantity =
\* new - previous, tagged (counted, count_page) or (import_csv,
\* inventory_import).
C25_DeltaIsDifference ==
    [][AbsoluteWrites(Exactly)]_vars

\* C25, amended: the same, with change_quantity = round(new - previous, 3).
C25_DeltaIsRoundedDifference ==
    [][AbsoluteWrites(round3)]_vars

\* a count or an import has set an existing item to 0.0014, and the ledger
\* row's change is not new - previous
C25_Witness ==
    /\ call.op \in {"inventory_count", "import_inventory_csv"}
    /\ inventory_transactions # <<>>
    /\ LET t == Last(inventory_transactions)
       IN  /\ t.inventory_item_id \in 1 .. Len(SeedItems)
           /\ t.new_quantity = 7
           /\ inventory_items[t.inventory_item_id].current_quantity = 7
           /\ t.change_quantity = round3(t.new_quantity - t.previous_quantity)
           /\ t.change_quantity # t.new_quantity - t.previous_quantity

\* C26: a successful adjust_inventory on item i changes item i's quantity
\* and appends one ledger row, and nothing else: every other column of i,
\* every other inventory item, and all recipes, ingredient lines, plans,
\* plan items, grocery lists and grocery list items are unchanged; and
\* every requirement computation reports as available the quantity the item
\* holds when it is made, so one made after the adjustment reports the new
\* quantity.
C26_AdjustTouchesOneItem ==
    [][/\ (call'.op = "adjust_inventory" /\ call'.code = 200) =>
              /\ inventory_items' =
                     [inventory_items EXCEPT ![call'.id].current_quantity = call'.ret]
              /\ Len(inventory_transactions') = Len(inventory_transactions) + 1
              /\ Last(inventory_transactions').inventory_item_id = call'.id
              /\ SubSeq(inventory_transactions', 1, Len(inventory_transactions))
                     = inventory_transactions
              /\ UNCHANGED <<recipes, recipe_ingredients, production_plans,
                             production_plan_items, grocery_lists, grocery_list_items>>
       /\ (call'.op = "get_production_plan" /\ call'.code = 200) =>
              \A k \in 1 .. Len(call'.rows) :
                  call'.rows[k].available_quantity =
                      inventory_items'[call'.rows[k].inventory_item_id].current_quantity
      ]_vars

\* requirements read after an adjustment of item 1, beside a second item, a
\* plan and a grocery list with an item: the line of item 1 reports the
\* adjusted quantity
C26_Witness ==
    /\ call.op = "get_production_plan"
    /\ call.code = 200
    /\ inventory_transactions # <<>>
    /\ Last(inventory_transactions).reason = "adjustment"
    /\ grocery_list_items # <<>>
    /\ \E k \in 1 .. Len(call.rows) :
           /\ call.rows[k].inventory_item_id = 1
           /\ call.rows[k].available_quantity = Last(inventory_transactions).new_quantity
           /\ call.rows[k].available_quantity # SeedItems[1].current_quantity

\* C27: the name, unit and vendor of a grocery list item created by
\* send_shortages are those of the inventory item when the shortages were
\* pushed; no later step changes them, a change of the inventory item's
\* name, base unit or supplier by update_inventory or a CSV import included;
\* and reading the list returns them as stored.
C27_PushCopiesItemFields ==
    [][/\ call'.op = "send_shortages" =>
              \A k \in Len(grocery_list_items) + 1 .. Len(grocery_list_items') :
                  LET g == grocery_list_items'[k]
                  IN  /\ g.name = inventory_items[g.inventory_item_id].name
                      /\ g.unit = inventory_items[g.inventory_item_id].base_unit
                      /\ g.vendor = inventory_items[g.inventory_item_id].supplier
       /\ \A k \in 1 .. Len(grocery_list_items) :
              /\ grocery_list_items'[k].name = grocery_list_items[k].name
              /\ grocery_list_items'[k].unit = grocery_list_items[k].unit
              /\ grocery_list_items'[k].vendor = grocery_list_items[k].vendor
       /\ (call'.op = "get_grocery_list" /\ call'.code = 200) =>
              call'.rows = SelectSeq(grocery_list_items,
                                     LAMBDA g : g.grocery_list_id = call'.id)
      ]_vars

\* a list read after the inventory item of a pushed line was renamed, given
\* another unit and another supplier: the line still carries the old ones
C27_Witness ==
    /\ call.op = "get_grocery_list"
    /\ call.code = 200
    /\ \E k \in 1 .. Len(call.rows) :
           LET g == call.rows[k]
           IN  /\ g.from_shortage
               /\ g.name = "Tomato" /\ g.unit = "kg" /\ g.vendor = "Local Farm"
               /\ inventory_items[g.inventory_item_id].name = "Roma"
               /\ inventory_items[g.inventory_item_id].base_unit = "lb"
               /\ inventory_items[g.inventory_item_id].supplier = "Metro"

StatusRank == [st \in GroceryStatuses |->
                  IF st = "needed" THEN 1 ELSE IF st = "ordered" THEN 2 ELSE 3]

\* C30: a grocery list item's status only moves forward along
\* needed -> ordered -> received: no step takes an item from received back
\* to ordered or needed, or from ordered back to needed.
C30_StatusMovesForward ==
    [][\A k \in 1 .. Len(grocery_list_items) :
          StatusRank[grocery_list_items'[k].status]
              >= StatusRank[grocery_list_items[k].status]]_vars

\* the requests that name one row by its id, and whether that row exists
ById(op, id) ==
    CASE op \in {"get_recipe", "scale_recipe"} -> recipe_index(id) # 0
      [] op \in {"get_production_plan", "send_shortages"} ->
             id \in 1 .. Len(production_plans)
      [] op = "adjust_inventory" -> id \in ItemIds
      [] op = "update_grocery_item" -> id \in 1 .. Len(grocery_list_items)

ByIdOps == {"get_recipe", "scale_recipe", "get_production_plan", "send_shortages",
            "adjust_inventory", "update_grocery_item"}

\* C28: get recipe, scale recipe, get plan requirements, adjust inventory,
\* push shortages and update grocery item, called with an id that does not
\* exist, fail with a not-found error and leave every table unchanged.
C28_UnknownIdNotFound ==
    [][(call'.op \in ByIdOps /\ ~ ById(call'.op, call'.id))
           => (call'.code = 404 /\ tables' = tables)]_vars

\* a grocery item that does not exist was updated, in a database that holds
\* a plan, a plan item, a grocery list with an item and a ledger row
C28_Witness ==
    /\ call.op = "update_grocery_item"
    /\ call.id \notin 1 .. Len(grocery_list_items)
    /\ call.code = 404
    /\ production_plan_items # <<>>
    /\ grocery_list_items # <<>>
    /\ inventory_transactions # <<>>

\* C29: in every reachable state every recipe_ingredients row belongs to an
\* existing recipe and every production plan item references an existing
\* recipe; after a recipe is deleted no ingredient line referencing it
\* remains.
C29_NoOrphanRows ==
    /\ \A k \in 1 .. Len(recipe_ingredients) :
           recipe_index(recipe_ingredients[k].recipe_id) # 0
    /\ \A k \in 1 .. Len(production_plan_items) :
           recipe_index(production_plan_items[k].recipe_id) # 0

\* C31: the ingredient lines resolved for a recipe are returned in the
\* order in which they were inserted (the order of the stored lines), which
\* depends on the stored lines alone, and scale_recipe returns its scaled
\* lines in that same order.
C31_LinesInInsertionOrder ==
    /\ (call.op = "get_recipe" /\ call.code = 200) =>
           call.rows = LinesOfRecipe(call.id)
    /\ (call.op = "scale_recipe" /\ call.code = 200) =>
           /\ Len(call.rows) = Len(LinesOfRecipe(call.id))
           /\ \A k \in 1 .. Len(call.rows) :
                  call.rows[k].ingredient =
                      inventory_items[LinesOfRecipe(call.id)[k].inventory_item_id].name

\* the lines of a recipe whose first line names Garlic (item 2) and whose
\* second names Tomato (item 1) were scaled: Garlic comes first
C31_Witness ==
    /\ call.op = "scale_recipe"
    /\ call.code = 200
    /\ Len(call.rows) = 2
    /\ LinesOfRecipe(call.id)[1].inventory_item_id = 2
    /\ LinesOfRecipe(call.id)[2].inventory_item_id = 1
    /\ call.rows[1].ingredient = "Garlic"
    /\ call.rows[2].ingredient = "Tomato"

RECURSIVE SumChanges(_)
SumChanges(rows) ==
    IF rows = <<>> THEN 0 ELSE Head(rows).change_quantity + SumChanges(Tail(rows))

\* C32: whenever no request is in progress, each inventory item's
\* current_quantity is its first quantity plus the sum of change_quantity
\* over its ledger rows, and each ledger row's previous_quantity is the
\* new_quantity of the item's preceding row (the first quantity for its
\* first row); also when two ledger writes to the item ran concurrently.
C32_LedgerBalances ==
    (\A w \in Workers : procs[w].pc = "idle") =>
        \A i \in 1 .. Len(SeedItems) :
            LET rows == RowsOf(inventory_transactions, i)
            IN  /\ inventory_items[i].current_quantity =
                       SeedItems[i].current_quantity + SumChanges(rows)
                /\ \A k \in 1 .. Len(rows) :
                       rows[k].previous_quantity =
                           IF k = 1 THEN SeedItems[i].current_quantity
                           ELSE rows[k - 1].new_quantity

\* the ledger rows of the receipts of one grocery item
ReceiptsOf(g) ==
    SelectSeq(inventory_transactions,
              LAMBDA t : t.reason = "received" /\ t.grocery_item = g)

\* C33: over any sequence of update_grocery_item calls the linked inventory
\* item is credited with a grocery item's quantity at most once: at most
\* one 'received' ledger row exists per grocery item.
C33_ReceivedAtMostOnce ==
    \A g \in 1 .. Len(grocery_list_items) : Len(ReceiptsOf(g)) <= 1

\* C34: when setting a grocery item to 'received' fails because the item has
\* no linked inventory item, the item's stored status after the failed call
\* is the status it had before the call.
C34_FailedReceiveKeepsStatus ==
    [][(/\ call'.op = "update_grocery_item"
        /\ call'.code = 400
        /\ call'.id \in 1 .. Len(grocery_list_items))
       => grocery_list_items'[call'.id].status
              = grocery_list_items[call'.id].status]_vars

\* the inventory as it was before the receipts in the ledger rows first .. last
BeforeReceipts(first, last) ==
    [k \in 1 .. Len(inventory_items) |->
        LET js == {j \in first .. last :
                      inventory_transactions[j].inventory_item_id = k}
        IN  IF js = {} THEN inventory_items[k]
            ELSE LET j == CHOOSE j \in js : \A i \in js : j <= i
                 IN  [inventory_items[k] EXCEPT !.current_quantity =
                         inventory_transactions[j].previous_quantity]]

\* the grocery items are the lines of one push of the shortages the plan, as
\* it is now, had before the receipts; each was received once, and the
\* receipts are the last rows of the ledger
Restocked(plan_id) ==
    LET n      == Len(grocery_list_items)
        m      == Len(inventory_transactions)
        pushed == shortages_of(BeforeReceipts(m - n + 1, m), plan_id)
    IN  /\ n > 0
        /\ n <= m
        /\ \A g \in 1 .. n : /\ grocery_list_items[g].from_shortage
                              /\ grocery_list_items[g].status = "received"
                              /\ Len(ReceiptsOf(g)) = 1
        /\ \A j \in m - n + 1 .. m : inventory_transactions[j].reason = "received"
        /\ Len(pushed) = n
        /\ \A g \in 1 .. n : /\ grocery_list_items[g].inventory_item_id
                                     = pushed[g].inventory_item_id
                              /\ grocery_list_items[g].quantity
                                     = pushed[g].shortage_quantity

C37_FailedRecipeWriteChangesNothing ==
    [][(/\ call'.op \in {"create_recipe", "update_recipe"}
        /\ call'.code = 400
        /\ ~ yield_rejected(call'.qty))
       => /\ recipes' = recipes
          /\ recipe_ingredients' = recipe_ingredients]_vars

\* C36: every grocery list item with from_shortage = true has quantity > 0 and
\* a non-null linked inventory item id, and belongs to a grocery list whose
\* date is the date of the plan it was pushed from: the lines a push appends
\* go to a list of the pushed plan's date, and in every state each such line
\* is positive, linked and on a list dated like some plan.
C36_ShortageLinesReceivable ==
    /\ [](\A g \in 1 .. Len(grocery_list_items) :
             grocery_list_items[g].from_shortage
             => /\ grocery_list_items[g].quantity > 0
                /\ grocery_list_items[g].inventory_item_id # NULL
                /\ grocery_list_items[g].grocery_list_id \in 1 .. Len(grocery_lists)
                /\ \E p \in 1 .. Len(production_plans) :
                       production_plans[p].plan_date
                           = grocery_lists[grocery_list_items[g].grocery_list_id]
                                 .list_date)
    /\ [][\A g \in Len(grocery_list_items) + 1 .. Len(grocery_list_items') :
             grocery_list_items'[g].from_shortage
             => /\ call'.op = "send_shortages"
                /\ call'.id \in 1 .. Len(production_plans)
                /\ grocery_lists'[grocery_list_items'[g].grocery_list_id].list_date
                       = production_plans[call'.id].plan_date]_vars

C36_Witness ==
    /\ call.op = "send_shortages"
    /\ call.ret > 0
    /\ Len(grocery_lists) = 2
    /\ Last(grocery_list_items).from_shortage
    /\ Last(grocery_list_items).grocery_list_id = 2
    /\ grocery_lists[2].list_date # grocery_lists[1].list_date
    /\ \E g \in 1 .. Len(grocery_list_items) : ~ grocery_list_items[g].from_shortage

\* C38: in every reachable state every production plan item has
\* target_yield_amount > 0, so every required quantity of a requirement
\* output is >= 0 when the ingredient quantities are >= 0.
C38_TargetsPositiveRequiredNonNegative ==
    /\ \A k \in 1 .. Len(production_plan_items) :
           production_plan_items[k].target_yield_amount > 0
    /\ (/\ call.op = "get_production_plan"
        /\ call.code = 200
        /\ \A k \in 1 .. Len(recipe_ingredients) : recipe_ingredients[k].quantity >= 0)
       => \A k \in 1 .. Len(call.rows) : call.rows[k].required_quantity >= 0

====
